---- MODULE Spec2Model ----
(***************************************************************************)
(* Host-side driver for the VEX V5 serial protocol: the simple-packet      *)
(* framer (commands/simple.rs), the extended-packet codec                  *)
(* (commands/extended.rs), the acknowledgement taxonomy (errors.rs).       *)
(*                                                                         *)
(* Bytes are integers 0..255.  Every read_exact call of the code is one    *)
(* step of the decoder; a read that hits the end of the stream fails with  *)
(* an I/O error, as read_exact does.                                       *)
(***************************************************************************)
EXTENDS Integers, Sequences, FiniteSets, TLC

VARIABLES
    stream,        \* the bytes the device delivers, in order (device -> host)
    pos,           \* how many bytes of stream the decoder has consumed
    expired,       \* TRUE once SystemTime::now() is past `countdown`
    mode,          \* "simple": Simple::decode_stream, "extended": Extended::decode_extended
    checks,        \* the VexExtPacketChecks mask handed to decode_extended
    pc,            \* position of the decoder
    header_index,  \* simple.rs:44
    command,       \* simple.rs:89, b[0]
    lenByte,       \* simple.rs:93, b[1]
    length,        \* simple.rs:93
    payload,       \* simple.rs:108
    packet,        \* simple.rs:78
    result,        \* what the decode returned
    reqId,         \* Extended.0 of the request being encoded
    reqPayload,    \* Extended.1 of the request being encoded
    encoded,       \* Extended::encode_request's output
    wellFormed,    \* the device response was built with a correct length and CRC
    lenN,          \* a payload length whose length field is emitted and read back
    lenField,      \* the length field the encoder emits for lenN
    lenRead,       \* the length the framer's rule reads from lenField
    ackByte,       \* a status byte handed to VexACKType::from_u8
    ackResult,     \* what from_u8 returned for it
    silence,       \* what a read does once the stream has no more bytes
    cmdName,       \* the concrete command whose response is decoded
    rxId,          \* the ext_command_id of the decoded extended response
    cmdResult,     \* what the command's decode returned
    stack,         \* the calls in progress on the device layer, outermost first
    hpc,           \* position inside the innermost call
    phase,         \* which exchange of the innermost call is running
    chunksLeft,    \* read_all / write_all: iterations of the loop still to run
    held,          \* the calls holding a RefMut of the shared V5Protocol
    log,           \* the I/O calls made on the stream, in order
    handle,        \* the V5FileHandle: "none", "live", "dropped"
    closed,        \* V5FileHandle.closed
    devSlot,       \* the device has a file transfer open
    fileMode,      \* open: "Upload" or "Download"
    ret,           \* what the last outermost call returned
    retval,        \* what the last inner call returned to its caller
    lastOp,        \* the last outermost call
    opsLeft,       \* outermost calls still to be made
    closeCalls,    \* explicit calls of V5FileHandle::close so far
    dropSaw,       \* Drop: the value of `closed` it found
    dropMark,      \* Drop: the length of the log when it started
    onExit,        \* the VexFiletransferFinished byte of the close in progress
    n_bytes,       \* the byte count a caller asks a file read for (u16)
    nbytes,        \* file.rs:208, the count FileTransferRead puts on the wire
    n_bytes_pad,   \* handle.rs:48, the count read_len puts on the wire
    max_packet_size, \* transfer_metadata.max_packet_size (u16)
    file_size,     \* transfer_metadata.file_size (u32)
    addr,          \* metadata.addr (u32)
    wdata,         \* write_all's argument `data`
    loop_i,        \* the loop variable i of write_all / read_all
    how_much,      \* handle.rs:138
    packet_size,   \* handle.rs:78, handle.rs:144
    requests,      \* the file requests sent to the device, in order
    flash,         \* the device's memory from addr on, flash[k] at addr + k - 1
    buf,           \* read_all's `data`
    encodedWrite,  \* file.rs:264, FileTransferWrite's `packet`
    tpc,           \* position inside write_all / read_all
    tret,          \* what write_all / read_all returned
    openData,      \* the data of the device's OpenFile response
    initResponse,  \* file.rs:69, what FileTransferInit::decode_response returned
    openMeta,      \* vexdevice.rs:255, what VexDevice::open stored or returned
    kvKey,         \* KVWrite.0, as bytes
    kvValue,       \* KVWrite.1, as bytes
    kvPayload,     \* kv.rs:121, the payload KVWrite hands to Extended
    opName,        \* the operation given a file name or a command to encode
    fileName,      \* the file name given to the operation, as its characters
    encodeOk,      \* send_command: encode_request returned Ok
    written,       \* how many bytes the operation has written to the stream
    opResult,      \* what the operation returned
    packets,       \* the packets the device sends one after the other
    returned,      \* what the earlier decodes on this stream returned, and where
    readLenRet,    \* what V5FileHandle::read_len returned
    kvReadRet,     \* what KVRead::decode_stream returned
    verId,         \* the command id of the version response
    verData,       \* the payload of the version response
    verRet,        \* what GetSystemVersion::decode_response returned
    devVerRet,     \* what VexDevice::get_device_version returned
    read_buffer,   \* Device.read_buffer
    delivered,     \* the bytes read_serial has handed to its callers, in order
    received,      \* the serial bytes the 0x27 responses have carried, in order
    devCount,      \* how many serial bytes the device has sent
    lastCall,      \* the last read_serial call: its buffer, what it did and returned
    callsLeft,     \* read_serial calls still to be made
    chDevice,      \* the product the device reports in its version responses
    chChannel,     \* with_channel's channel argument, as its byte
    chLog,         \* the requests with_channel has sent and the call of f, in order
    chF,           \* vexdevice.rs:92, res
    chRet          \* what with_channel returned

vars == <<stream, pos, expired, mode, checks, pc, header_index, command, lenByte,
          length, payload, packet, result, reqId, reqPayload, encoded, wellFormed,
          lenN, lenField, lenRead, ackByte, ackResult, silence,
          cmdName, rxId, cmdResult, stack, hpc, phase, chunksLeft, held, log,
          handle, closed, devSlot, fileMode, ret, retval, lastOp, opsLeft,
          closeCalls, dropSaw, dropMark, onExit, n_bytes, nbytes, n_bytes_pad,
          max_packet_size, file_size, addr, wdata, loop_i, how_much, packet_size,
          requests, flash, buf, encodedWrite, tpc, tret,
          openData, initResponse, openMeta, kvKey, kvValue, kvPayload,
          opName, fileName, encodeOk, written, opResult,
          packets, returned, readLenRet, kvReadRet,
          verId, verData, verRet, devVerRet,
          read_buffer, delivered, received, devCount, lastCall, callsLeft,
          chDevice, chChannel, chLog, chF, chRet>>

decoderVars == <<pos, expired, pc, header_index, command, lenByte, length,
                 payload, packet, result>>
inputVars == <<stream, mode, checks, wellFormed, silence>>
encoderVars == <<reqId, reqPayload, encoded>>
lengthVars == <<lenN, lenField, lenRead>>
ackVars == <<ackByte, ackResult>>
commandVars == <<cmdName, rxId, cmdResult>>
sessionVars == <<stack, hpc, phase, chunksLeft, held, log, handle, closed,
                 devSlot, fileMode, ret, retval, lastOp, opsLeft, closeCalls,
                 dropSaw, dropMark, onExit>>
padVars == <<n_bytes, nbytes, n_bytes_pad>>
transferVars == <<max_packet_size, file_size, addr, wdata, loop_i, how_much,
                  packet_size, requests, flash, buf, encodedWrite, tpc, tret>>
openVars == <<openData, initResponse, openMeta>>
kvVars == <<kvKey, kvValue, kvPayload>>
rejectVars == <<opName, fileName, encodeOk, written, opResult>>
pairVars == <<packets, returned>>
readVars == <<readLenRet>>
kvReadVars == <<kvReadRet>>
versionVars == <<verId, verData, verRet, devVerRet>>
serialVars == <<read_buffer, delivered, received, devCount, lastCall, callsLeft>>
channelVars == <<chDevice, chChannel, chLog, chF, chRet>>
lateVars == <<pairVars, readVars, kvReadVars, versionVars, serialVars, channelVars>>
plainVars == <<openVars, kvVars, rejectVars, lateVars>>
hostVars == <<commandVars, sessionVars, padVars, transferVars, plainVars>>
codecVars == <<decoderVars, inputVars, encoderVars, lengthVars, ackVars, commandVars,
               padVars, transferVars, plainVars>>
\* everything but plainVars
baseVars == <<decoderVars, inputVars, encoderVars, lengthVars, ackVars, commandVars,
              sessionVars, padVars, transferVars>>

(***************************************************************************)
(* Bounds of the model.                                                    *)
(***************************************************************************)
\* longest raw byte stream fed to the framer
MaxStream == 6
\* request payload lengths 0..MaxSmallLen are all encoded, besides the boundary lengths
MaxSmallLen == 3
\* longest response data field the device sends
MaxData == 2
\* most bytes a device sends before it falls silent
MaxSilent == 4
\* largest payload length whose length field is emitted and read back (0x7FFF)
MaxLength == 32767

(***************************************************************************)
(* Bit operations on naturals (u8 / u16 values).                           *)
(***************************************************************************)
RECURSIVE BitAnd(_, _)
BitAnd(a, b) ==
    IF a = 0 \/ b = 0 THEN 0
    ELSE (IF a % 2 = 1 /\ b % 2 = 1 THEN 1 ELSE 0) + 2 * BitAnd(a \div 2, b \div 2)

RECURSIVE BitOr(_, _)
BitOr(a, b) ==
    IF a = 0 THEN b
    ELSE IF b = 0 THEN a
    ELSE (IF a % 2 = 1 \/ b % 2 = 1 THEN 1 ELSE 0) + 2 * BitOr(a \div 2, b \div 2)

RECURSIVE BitXor(_, _)
BitXor(a, b) ==
    IF a = 0 THEN b
    ELSE IF b = 0 THEN a
    ELSE (IF a % 2 # b % 2 THEN 1 ELSE 0) + 2 * BitXor(a \div 2, b \div 2)

\* `x as u8`
AsU8(x) == x % 256
\* `x as u16`
AsU16(x) == x % 65536

(***************************************************************************)
(* Checksum engine: CRC-16/XMODEM (poly 0x1021, init 0, not reflected, no  *)
(* xorout), what crc::Crc::<u16>::new(&VEX_CRC16).checksum computes.       *)
(***************************************************************************)
\* bit w (a power of two) of x flipped
FlipBit(x, w) == IF (x \div w) % 2 = 1 THEN x - w ELSE x + w

\* x XOR 0x1021, the CRC polynomial: bits 12, 5 and 0 flipped
XorPoly(x) == FlipBit(FlipBit(FlipBit(x, 4096), 32), 1)

\* one bit of the division: shift left, and reduce when a 1 was shifted out
Crc16Bit(crc) ==
    IF crc >= 32768 THEN XorPoly(AsU16(crc * 2)) ELSE AsU16(crc * 2)

\* one byte: XORed into the high byte of the register, then 8 bits divided
Crc16Byte(crc, b) ==
    LET x0 == (BitXor(crc \div 256, b) * 256) + (crc % 256)
    IN Crc16Bit(Crc16Bit(Crc16Bit(Crc16Bit(Crc16Bit(Crc16Bit(Crc16Bit(Crc16Bit(x0))))))))

\* the left fold of Crc16Byte over bytes[lo..hi], split in halves to keep the
\* evaluation shallow (the test of `left` has the first half evaluated before
\* the second half starts)
RECURSIVE Crc16Range(_, _, _, _)
Crc16Range(crc, bytes, lo, hi) ==
    IF lo > hi THEN crc
    ELSE IF lo = hi THEN Crc16Byte(crc, bytes[lo])
    ELSE LET mid == (lo + hi) \div 2
             left == Crc16Range(crc, bytes, lo, mid)
         IN IF left >= 0 THEN Crc16Range(left, bytes, mid + 1, hi) ELSE 0

Crc16(bytes) == Crc16Range(0, bytes, 1, Len(bytes))

(***************************************************************************)
(* Simple-packet framer, Simple::decode_stream.                            *)
(***************************************************************************)
\* simple.rs:43, the header of a device -> host packet
expected_header == <<170, 85>>

\* the extended-command marker 0x56
ExtendedCommand == 86

NoResult == [status |-> "None", id |-> 0, data |-> <<>>, ack |-> "None"]
ErrResult(e) == [status |-> e, id |-> 0, data |-> <<>>, ack |-> "None"]
OkResult(id, data) == [status |-> "Ok", id |-> id, data |-> data, ack |-> "None"]

\* simple.rs:67-71, the header index after byte b
HeaderStep(index, b) ==
    IF b = expected_header[index + 1] THEN index + 1 ELSE 0

\* HasLengthLow without the test of the command byte
HasLengthLowAnyCommand(cmd, b1) ==
    BitAnd(b1, 128) = 128

\* simple.rs:93, whether a second length byte follows
HasLengthLow(cmd, b1) ==
    cmd = ExtendedCommand /\ BitAnd(b1, 128) = 128

\* the two-byte length with the high byte dropped
WideLengthLowOnly(b1, bl) == bl

\* simple.rs:102, the two-byte length
WideLength(b1, bl) == BitOr(BitAnd(b1, 127) * 256, bl)

\* read_exact on a stream that has no more bytes to give: with silence = "eof"
\* the read returns Err (end of file, or the read timeout of the port) and the
\* decode returns IoError; with silence = "block" the read never returns
ReadStarved ==
    IF silence = "block"
    THEN pc' = "blocked" /\ UNCHANGED result
    ELSE pc' = "done" /\ result' = ErrResult("IoError")

\* the deadline looked at before every read, those after the sync included
DeadlineCheckedEverywhere(at) == at \in {"scan", "cmdlen", "lenlow", "payload"}

\* simple.rs:55-57, where the decoder compares the clock with the deadline:
\* at the top of the header loop only
DeadlineChecked(at) == at = "scan"

\* simple.rs:55-57, the early return taken where the deadline is looked at
TimedOut == expired /\ DeadlineChecked(pc)

\* the deadline passes at some moment; SystemTime::now() only moves forward
Tick ==
    /\ pc \in {"scan", "cmdlen", "lenlow", "payload"}
    /\ ~expired
    /\ expired' = TRUE
    /\ UNCHANGED <<pos, pc, header_index, command, lenByte, length, payload,
                   packet, result>>
    /\ UNCHANGED <<inputVars, encoderVars, lengthVars, ackVars, hostVars>>

\* one iteration of the header loop, simple.rs:51-72
ScanStep ==
    /\ pc = "scan"
    /\ IF TimedOut
       THEN /\ result' = ErrResult("HeaderTimeout")
            /\ pc' = "done"
            /\ UNCHANGED <<pos, header_index>>
       ELSE IF pos >= Len(stream)
       THEN /\ ReadStarved
            /\ UNCHANGED <<pos, header_index>>
       ELSE /\ pos' = pos + 1
            /\ header_index' = HeaderStep(header_index, stream[pos + 1])
            /\ pc' = IF header_index' < Len(expected_header) THEN "scan" ELSE "cmdlen"
            /\ UNCHANGED result
    /\ UNCHANGED <<expired, command, lenByte, length, payload, packet>>
    /\ UNCHANGED <<inputVars, encoderVars, lengthVars, ackVars, hostVars>>

\* simple.rs:78-105 up to the choice of the length form
ReadCommandLength ==
    /\ pc = "cmdlen"
    /\ IF TimedOut
       THEN /\ result' = ErrResult("HeaderTimeout")
            /\ pc' = "done"
            /\ UNCHANGED <<pos, command, lenByte, length, packet>>
       ELSE IF pos + 2 > Len(stream)
       THEN /\ ReadStarved
            /\ pos' = Len(stream)
            /\ UNCHANGED <<command, lenByte, length, packet>>
       ELSE /\ pos' = pos + 2
            /\ command' = stream[pos + 1]
            /\ lenByte' = stream[pos + 2]
            /\ packet' = expected_header \o <<stream[pos + 1], stream[pos + 2]>>
            /\ IF HasLengthLow(command', lenByte')
               THEN pc' = "lenlow" /\ UNCHANGED length
               ELSE pc' = "payload" /\ length' = lenByte'
            /\ UNCHANGED result
    /\ UNCHANGED <<expired, header_index, payload>>
    /\ UNCHANGED <<inputVars, encoderVars, lengthVars, ackVars, hostVars>>

\* simple.rs:94-102
ReadLengthLow ==
    /\ pc = "lenlow"
    /\ IF TimedOut
       THEN /\ result' = ErrResult("HeaderTimeout")
            /\ pc' = "done"
            /\ UNCHANGED <<pos, length, packet>>
       ELSE IF pos + 1 > Len(stream)
       THEN /\ ReadStarved
            /\ UNCHANGED <<pos, length, packet>>
       ELSE /\ pos' = pos + 1
            /\ packet' = Append(packet, stream[pos + 1])
            /\ length' = WideLength(lenByte, stream[pos + 1])
            /\ pc' = "payload"
            /\ UNCHANGED result
    /\ UNCHANGED <<expired, header_index, command, lenByte, payload>>
    /\ UNCHANGED <<inputVars, encoderVars, lengthVars, ackVars, hostVars>>

\* simple.rs:107-117
ReadPayload ==
    /\ pc = "payload"
    /\ IF TimedOut
       THEN /\ result' = ErrResult("HeaderTimeout")
            /\ pc' = "done"
            /\ UNCHANGED <<pos, payload, packet>>
       ELSE IF pos + length > Len(stream)
       THEN /\ ReadStarved
            /\ pos' = Len(stream)
            /\ UNCHANGED <<payload, packet>>
       ELSE /\ pos' = pos + length
            /\ payload' = SubSeq(stream, pos + 1, pos + length)
            /\ packet' = packet \o payload'
            /\ IF mode = "simple"
               THEN result' = OkResult(command, payload') /\ pc' = "done"
               ELSE UNCHANGED result /\ pc' = "checks"
    /\ UNCHANGED <<expired, header_index, command, lenByte, length>>
    /\ UNCHANGED <<inputVars, encoderVars, lengthVars, ackVars, hostVars>>

(***************************************************************************)
(* Acknowledgement taxonomy, errors.rs.                                    *)
(***************************************************************************)
\* errors.rs:77-108, the enum's discriminants
VexACKType ==
    [ACK |-> 118, NACKCrcError |-> 206, NACKPayloadShort |-> 208,
     NACKTransferSizeTooLarge |-> 209, NACKProgramCrcFailed |-> 210,
     NACKProgramFileError |-> 211, NACKUninitializedTransfer |-> 212,
     NACKInitializationInvalid |-> 213, NACKLengthNotPaddedTo4 |-> 214,
     NACKAddressNoMatch |-> 215, NACKDownloadLengthNoMatch |-> 216,
     NACKDirectoryNoExist |-> 217, NACKNoFileRoom |-> 218,
     NACKFileAlreadyExists |-> 219, NACKGeneral |-> 255]

\* from_u8 derived from the discriminants (as num::FromPrimitive would)
from_u8ByDiscriminant(v) ==
    IF \E name \in DOMAIN VexACKType : VexACKType[name] = v
    THEN CHOOSE name \in DOMAIN VexACKType : VexACKType[name] = v
    ELSE "InvalidAck"

\* errors.rs:112-130, VexACKType::from_u8; "InvalidAck" stands for Err(InvalidAck)
from_u8(v) ==
    CASE v = 118 -> "ACK"
      [] v = 206 -> "NACKCrcError"
      [] v = 208 -> "NACKPayloadShort"
      [] v = 209 -> "NACKTransferSizeTooLarge"
      [] v = 210 -> "NACKProgramCrcFailed"
      [] v = 211 -> "NACKProgramFileError"
      [] v = 212 -> "NACKUninitializedTransfer"
      [] v = 213 -> "NACKInitializationInvalid"
      [] v = 214 -> "NACKLengthNotPaddedTo4"
      [] v = 215 -> "NACKAddressNoMatch"
      [] v = 216 -> "NACKDownloadLengthNoMatch"
      [] v = 217 -> "NACKDirectoryNoExist"
      [] v = 218 -> "NACKNoFileRoom"
      [] v = 219 -> "NACKFileAlreadyExists"
      [] OTHER -> "InvalidAck"

(***************************************************************************)
(* Extended-packet codec, commands/extended.rs.                            *)
(***************************************************************************)
\* checks.rs:7-19
VexExtPacketChecks == {"ACK", "CRC", "LENGTH"}

NackResult(v) == [status |-> "NACK", id |-> 0, data |-> <<>>, ack |-> v]

\* PayloadSlice starting one byte early, at the byte after the command id
PayloadSliceKeepAck(id, pl) ==
    IF Len(pl) < 2
    THEN {ErrResult("Panic"), ErrResult("PacketLengthError")}
    ELSE IF Len(pl) - 2 < 1
    THEN {ErrResult("PacketLengthError")}
    ELSE {OkResult(id, SubSeq(pl, 2, Len(pl) - 2))}

\* extended.rs:64-68, packet.1.get(2..packet.1.len()-2): the set of outcomes.
\* With fewer than 2 payload bytes the subtraction underflows: a panic where
\* overflow checks are compiled in, a wrapped (huge) end and so None where not.
PayloadSlice(id, pl) ==
    IF Len(pl) < 2
    THEN {ErrResult("Panic"), ErrResult("PacketLengthError")}
    ELSE IF Len(pl) - 2 < 2
    THEN {ErrResult("PacketLengthError")}
    ELSE {OkResult(id, SubSeq(pl, 3, Len(pl) - 2))}

\* AckCheck reporting every byte that is not ACK as a NACK
AckCheckCoerce(pl, chk) ==
    IF "ACK" \notin chk THEN "pass"
    ELSE IF Len(pl) < 2 THEN "PacketLengthError"
    ELSE IF from_u8(pl[2]) # "ACK" THEN "NACK"
    ELSE "pass"

\* AckCheck run whatever the mask says
AckCheckAlways(pl, chk) ==
    IF Len(pl) < 2 THEN "PacketLengthError"
    ELSE IF from_u8(pl[2]) = "InvalidAck" THEN "InvalidAck"
    ELSE IF from_u8(pl[2]) # "ACK" THEN "NACK"
    ELSE "pass"

\* extended.rs:50-62, the ACK check: the error it returns, or "pass"
AckCheck(pl, chk) ==
    IF "ACK" \notin chk THEN "pass"
    ELSE IF Len(pl) < 2 THEN "PacketLengthError"
    ELSE IF from_u8(pl[2]) = "InvalidAck" THEN "InvalidAck"
    ELSE IF from_u8(pl[2]) # "ACK" THEN "NACK"
    ELSE "pass"

\* DecodeExtendedChecks looking at the ACK byte before the CRC
DecodeExtendedChecksAckFirst(cmd, pl, pkt, chk) ==
    IF cmd # ExtendedCommand THEN {ErrResult("ExpectedExtended")}
    ELSE IF Len(pl) = 0 THEN {ErrResult("PacketLengthError")}
    ELSE IF AckCheck(pl, chk) = "NACK" THEN {NackResult(from_u8(pl[2]))}
    ELSE IF AckCheck(pl, chk) # "pass" THEN {ErrResult(AckCheck(pl, chk))}
    ELSE IF "CRC" \in chk /\ Crc16(pkt) # 0 THEN {ErrResult("CrcError")}
    ELSE PayloadSlice(pl[1], pl)

\* DecodeExtendedChecks leaving the 2 trailing bytes in place unless the mask
\* has LENGTH
DecodeExtendedChecksLengthGated(cmd, pl, pkt, chk) ==
    IF cmd # ExtendedCommand THEN {ErrResult("ExpectedExtended")}
    ELSE IF "CRC" \in chk /\ Crc16(pkt) # 0 THEN {ErrResult("CrcError")}
    ELSE IF Len(pl) = 0 THEN {ErrResult("PacketLengthError")}
    ELSE IF AckCheck(pl, chk) = "NACK" THEN {NackResult(from_u8(pl[2]))}
    ELSE IF AckCheck(pl, chk) # "pass" THEN {ErrResult(AckCheck(pl, chk))}
    ELSE IF "LENGTH" \in chk \/ Len(pl) < 4 THEN PayloadSlice(pl[1], pl)
    ELSE {OkResult(pl[1], SubSeq(pl, 3, Len(pl)))}

\* extended.rs:28-72, what decode_extended does with the decoded simple packet
\* (cmd, pl, pkt): the set of outcomes
DecodeExtendedChecks(cmd, pl, pkt, chk) ==
    IF cmd # ExtendedCommand THEN {ErrResult("ExpectedExtended")}
    ELSE IF "CRC" \in chk /\ Crc16(pkt) # 0 THEN {ErrResult("CrcError")}
    ELSE IF Len(pl) = 0 THEN {ErrResult("PacketLengthError")}
    ELSE IF AckCheck(pl, chk) = "NACK" THEN {NackResult(from_u8(pl[2]))}
    ELSE IF AckCheck(pl, chk) # "pass" THEN {ErrResult(AckCheck(pl, chk))}
    ELSE PayloadSlice(pl[1], pl)

\* extended.rs:28-72 after Simple::decode_stream has returned Ok
ExtendedChecks ==
    /\ pc = "checks"
    /\ result' \in DecodeExtendedChecks(command, payload, packet, checks)
    /\ pc' = "done"
    /\ UNCHANGED <<pos, expired, header_index, command, lenByte, length, payload, packet>>
    /\ UNCHANGED <<inputVars, encoderVars, lengthVars, ackVars, hostVars>>

\* LengthField that goes to two bytes from 0x80 on
LengthFieldFrom128(n) ==
    LET payload_length == AsU16(n)
    IN (IF payload_length >= 128
        THEN <<AsU8(BitOr(payload_length \div 256, 128))>>
        ELSE <<>>)
       \o <<AsU8(BitAnd(payload_length, 255))>>

\* extended.rs:85-95, the length field of a payload of n bytes
LengthField(n) ==
    LET payload_length == AsU16(n)
    IN (IF payload_length > 128
        THEN <<AsU8(BitOr(payload_length \div 256, 128))>>
        ELSE <<>>)
       \o <<AsU8(BitAnd(payload_length, 255))>>

\* simple.rs:20-30, Simple(cmd, pl).encode_request()
SimpleEncode(cmd, pl) == <<201, 54, 184, 71, cmd>> \o pl

\* CrcTrailer with the low byte first
CrcTrailerLowFirst(checksum) == <<AsU8(BitAnd(checksum, 255)), AsU8(checksum \div 256)>>

\* extended.rs:113-115, the checksum appended high byte first
CrcTrailer(checksum) == <<AsU8(checksum \div 256), AsU8(BitAnd(checksum, 255))>>

\* ExtendedEncode with the checksum taken over the extended part only
ExtendedEncodeCrcOfBody(id, pl) ==
    LET body == <<id>> \o LengthField(Len(pl)) \o pl
    IN SimpleEncode(ExtendedCommand, body) \o CrcTrailer(Crc16(body))

\* extended.rs:79-119, Extended(id, pl).encode_request()
ExtendedEncode(id, pl) ==
    LET pkt == SimpleEncode(ExtendedCommand, <<id>> \o LengthField(Len(pl)) \o pl)
    IN pkt \o CrcTrailer(Crc16(pkt))

(***************************************************************************)
(* The framer on raw byte streams.                                         *)
(***************************************************************************)
\* bytes a raw stream is made of: 0xAA, 0x55, 0x56, 0x80, 0x01
StreamBytes == {170, 85, 86, 128, 1}

RawStreams == UNION {[1..n -> StreamBytes] : n \in 0..MaxStream}

DecoderInit ==
    /\ pos = 0
    /\ expired = FALSE
    /\ header_index = 0
    /\ command = 0
    /\ lenByte = 0
    /\ length = 0
    /\ payload = <<>>
    /\ packet = <<>>
    /\ result = NoResult

NoEncoder ==
    /\ reqId = 0
    /\ reqPayload = <<>>
    /\ encoded = <<>>

NoLength ==
    /\ lenN = 0
    /\ lenField = <<>>
    /\ lenRead = 0

NoAck ==
    /\ ackByte = 0
    /\ ackResult = "None"

NoCommand ==
    /\ cmdName = "None"
    /\ rxId = 0
    /\ cmdResult = [status |-> "None", expected |-> 0, actual |-> 0]

NoSession ==
    /\ stack = <<>>
    /\ hpc = "idle"
    /\ phase = 0
    /\ chunksLeft = 0
    /\ held = {}
    /\ log = <<>>
    /\ handle = "none"
    /\ closed = FALSE
    /\ devSlot = FALSE
    /\ fileMode = "None"
    /\ ret = "None"
    /\ retval = "None"
    /\ lastOp = "None"
    /\ opsLeft = 0
    /\ closeCalls = 0
    /\ dropSaw = FALSE
    /\ dropMark = 0
    /\ onExit = 0

\* an outcome of a u16 computation: a value, or the overflow panic
PadOk(v) == [status |-> "Ok", value |-> v]
PadPanic == [status |-> "Panic", value |-> 0]
PadNone == [status |-> "None", value |-> 0]

NoPad ==
    /\ n_bytes = 0
    /\ nbytes = PadNone
    /\ n_bytes_pad = PadNone

NoTransfer ==
    /\ max_packet_size = 0
    /\ file_size = 0
    /\ addr = 0
    /\ wdata = <<>>
    /\ loop_i = 0
    /\ how_much = 0
    /\ packet_size = PadNone
    /\ requests = <<>>
    /\ flash = <<>>
    /\ buf = <<>>
    /\ encodedWrite = <<>>
    /\ tpc = "idle"
    /\ tret = PadNone

NoOpen ==
    /\ openData = <<>>
    /\ initResponse = [status |-> "None"]
    /\ openMeta = [status |-> "None"]

NoKV ==
    /\ kvKey = <<>>
    /\ kvValue = <<>>
    /\ kvPayload = [id |-> 0, payload |-> <<>>]

NoReject ==
    /\ opName = "None"
    /\ fileName = <<>>
    /\ encodeOk = TRUE
    /\ written = 0
    /\ opResult = "None"

NoPair ==
    /\ packets = <<>>
    /\ returned = <<>>

NoRead == readLenRet = [status |-> "None", data |-> <<>>]

NoKVRead == kvReadRet = [status |-> "None", value |-> <<>>]

NoVersionRet == [status |-> "None", version |-> <<>>, product |-> "None", flags |-> 0]

NoVersion ==
    /\ verId = 0
    /\ verData = <<>>
    /\ verRet = NoVersionRet
    /\ devVerRet = NoVersionRet

NoCall == [status |-> "None", buf |-> <<>>, had |-> 0, requested |-> FALSE, data_len |-> 0]

NoSerial ==
    /\ read_buffer = <<>>
    /\ delivered = <<>>
    /\ received = <<>>
    /\ devCount = 0
    /\ lastCall = NoCall
    /\ callsLeft = 0

NoChannel ==
    /\ chDevice = "None"
    /\ chChannel = 0
    /\ chLog = <<>>
    /\ chF = "None"
    /\ chRet = "None"

NoLate ==
    /\ NoPair
    /\ NoRead
    /\ NoKVRead
    /\ NoVersion
    /\ NoSerial
    /\ NoChannel

NoPlain ==
    /\ NoOpen
    /\ NoKV
    /\ NoReject
    /\ NoLate

NoHost ==
    /\ NoCommand
    /\ NoSession
    /\ NoPad
    /\ NoTransfer
    /\ NoPlain

InitFramer ==
    /\ stream \in RawStreams
    /\ mode = "simple"
    /\ checks = {}
    /\ wellFormed = FALSE
    /\ pc = "scan"
    /\ DecoderInit
    /\ NoEncoder
    /\ NoLength
    /\ NoAck
    /\ silence = "eof"
    /\ NoHost

NextFramer ==
    \/ Tick
    \/ ScanStep
    \/ ReadCommandLength
    \/ ReadLengthLow
    \/ ReadPayload

SpecFramer == InitFramer /\ [][NextFramer]_vars

(***************************************************************************)
(* The length field alone: the encoder emits it, the framer's rule reads   *)
(* it back as the length field of an extended (0x56) packet.               *)
(***************************************************************************)
\* bytes that may follow a length field on the wire
FollowBytes == {0, 1, 128, 255}

InitLength ==
    /\ lenN \in 0..MaxLength
    /\ lenField = <<>>
    /\ lenRead = 0
    /\ pc = "len_emit"
    /\ stream = <<>>
    /\ mode = "simple"
    /\ checks = {}
    /\ wellFormed = FALSE
    /\ DecoderInit
    /\ NoEncoder
    /\ NoAck
    /\ silence = "eof"
    /\ NoHost

\* extended.rs:85-95
EmitLength ==
    /\ pc = "len_emit"
    /\ lenField' = LengthField(lenN)
    /\ pc' = "len_read"
    /\ UNCHANGED <<lenN, lenRead>>
    /\ UNCHANGED <<pos, expired, header_index, command, lenByte, length, payload,
                   packet, result>>
    /\ UNCHANGED <<inputVars, encoderVars, ackVars, hostVars>>

\* simple.rs:93-105 applied to the emitted field; when the rule asks for a
\* second byte and the field has none, the byte read is whatever follows
ReadLength ==
    /\ pc = "len_read"
    /\ IF HasLengthLow(ExtendedCommand, lenField[1])
       THEN \E next \in FollowBytes :
                lenRead' = WideLength(lenField[1],
                                      IF Len(lenField) >= 2 THEN lenField[2] ELSE next)
       ELSE lenRead' = lenField[1]
    /\ pc' = "len_done"
    /\ UNCHANGED <<lenN, lenField>>
    /\ UNCHANGED <<pos, expired, header_index, command, lenByte, length, payload,
                   packet, result>>
    /\ UNCHANGED <<inputVars, encoderVars, ackVars, hostVars>>

NextLength ==
    \/ EmitLength
    \/ ReadLength

SpecLength == InitLength /\ [][NextLength]_vars

(***************************************************************************)
(* Requests: Extended(id, payload) is encoded, and its bytes are handed to *)
(* Extended::decode_stream (all checks), the decode of the same command.   *)
(***************************************************************************)
\* a payload of n bytes: seed, seed + 3, seed + 6, ...
Ramp(seed, n) == [i \in 1..n |-> (seed + 3 * (i - 1)) % 256]

\* a device -> host extended packet around body (ext id, ack, data): the header,
\* 0x56, the length of body and trailer, the body, the CRC16 of all of it
FramePacket(lengthField, body) ==
    LET pkt == expected_header \o <<ExtendedCommand>> \o lengthField \o body
    IN pkt \o <<Crc16(pkt) \div 256, Crc16(pkt) % 256>>

\* the length field in its short form (lengths below 0x80)
Frame(body) == FramePacket(<<Len(body) + 2>>, body)

\* the length field in its two-byte form
WideFrame(body) ==
    FramePacket(<<128 + ((Len(body) + 2) \div 256), (Len(body) + 2) % 256>>, body)

\* 0x01, 0x2E (key-value read), 0xAA
RequestIds == {1, 46, 170}

\* a payload of 0x7FFF bytes: a device -> host header, 0x56 and the two-byte
\* length 0x7FFA, then 0x7FFA bytes
LongPayload == <<170, 85, 86, 255, 250>> \o Ramp(0, 32762)

RequestLengths == (0..MaxSmallLen) \cup {127, 128, 129}

RequestPayloads ==
    {Ramp(seed, n) : seed \in {0, 85}, n \in RequestLengths}
    \cup {Frame(<<1, 118>>), Frame(<<46, 118, 104, 105>>), <<85>> \o Frame(<<1, 206>>),
          WideFrame(<<46, 118, 104>>)}

\* (id, payload) of the requests encoded
Requests == (RequestIds \X RequestPayloads) \cup {<<46, LongPayload>>}

InitEncode ==
    /\ \E r \in Requests : reqId = r[1] /\ reqPayload = r[2]
    /\ encoded = <<>>
    /\ pc = "encode"
    /\ stream = <<>>
    /\ mode = "extended"
    /\ checks = VexExtPacketChecks
    /\ wellFormed = FALSE
    /\ DecoderInit
    /\ NoLength
    /\ NoAck
    /\ silence = "eof"
    /\ NoHost

\* extended.rs:79-119
EncodeRequest ==
    /\ pc = "encode"
    /\ encoded' = ExtendedEncode(reqId, reqPayload)
    /\ pc' = "encoded"
    /\ UNCHANGED <<reqId, reqPayload>>
    /\ UNCHANGED <<pos, expired, header_index, command, lenByte, length, payload,
                   packet, result>>
    /\ UNCHANGED <<inputVars, lengthVars, ackVars, hostVars>>

\* the encoded bytes come back as the stream to decode
LoopBack ==
    /\ pc = "encoded"
    /\ stream' = encoded
    /\ pc' = "scan"
    /\ UNCHANGED <<mode, checks, wellFormed, silence>>
    /\ UNCHANGED <<pos, expired, header_index, command, lenByte, length, payload,
                   packet, result>>
    /\ UNCHANGED <<encoderVars, lengthVars, ackVars, hostVars>>

NextEncode ==
    \/ EncodeRequest
    \/ LoopBack
    \/ Tick
    \/ ScanStep
    \/ ReadCommandLength
    \/ ReadLengthLow
    \/ ReadPayload
    \/ ExtendedChecks

SpecEncode == InitEncode /\ [][NextEncode]_vars

(***************************************************************************)
(* Responses: the device's bytes are decoded by Extended::decode_extended  *)
(* under every check mask.                                                 *)
(***************************************************************************)
\* 0x01, 0x2E
ResponseIds == {1, 46}

\* response data: "h", "hi", ...
ResponseData == {Ramp(104, n) : n \in 0..MaxData}

\* well-formed responses: ext id, any status byte, data, correct length and CRC
GoodResponses ==
    {Frame(<<id, ack>> \o data) : id \in ResponseIds, ack \in 0..255, data \in ResponseData}
    \cup {WideFrame(<<1, ack>> \o data) : ack \in {118, 206}, data \in ResponseData}

\* the last byte of a stream changed
Corrupt(s) == [s EXCEPT ![Len(s)] = (s[Len(s)] + 1) % 256]

\* malformed responses: short bodies, a bad CRC, a simple (non-extended)
\* packet, a two-byte length field, a packet cut short
BadResponses ==
    {Frame(<<>>), Frame(<<1>>), Frame(<<1, 118>>) \o <<0>>,
     <<170, 85, 86, 0>>, <<170, 85, 86, 1, 1>>, <<170, 85, 86, 2, 1, 118>>,
     <<170, 85, 86, 3, 1, 118, 0>>, <<170, 85, 86, 3, 1, 206, 0>>,
     <<170, 85, 86, 128, 4, 1, 118, 0, 0>>,
     <<170, 85, 164, 2, 1, 118>>, <<170, 85, 86, 4, 1>>, <<170, 85, 86, 128>>}
    \cup {Corrupt(Frame(<<1, ack>> \o data)) : ack \in {118, 206, 0}, data \in ResponseData}

InitDecode ==
    /\ stream \in GoodResponses \cup BadResponses
    /\ wellFormed = (stream \in GoodResponses)
    /\ mode = "extended"
    /\ checks \in SUBSET VexExtPacketChecks
    /\ pc = "scan"
    /\ DecoderInit
    /\ NoEncoder
    /\ NoLength
    /\ NoAck
    /\ silence = "eof"
    /\ NoHost

NextDecode ==
    \/ Tick
    \/ ScanStep
    \/ ReadCommandLength
    \/ ReadLengthLow
    \/ ReadPayload
    \/ ExtendedChecks

SpecDecode == InitDecode /\ [][NextDecode]_vars

(***************************************************************************)
(* VexACKType::from_u8 on every byte value.                                *)
(***************************************************************************)
InitAck ==
    /\ ackByte \in 0..255
    /\ ackResult = "None"
    /\ pc = "ack"
    /\ stream = <<>>
    /\ mode = "simple"
    /\ checks = {}
    /\ wellFormed = FALSE
    /\ DecoderInit
    /\ NoEncoder
    /\ NoLength
    /\ silence = "eof"
    /\ NoHost

\* errors.rs:112-130
ConvertAck ==
    /\ pc = "ack"
    /\ ackResult' = from_u8(ackByte)
    /\ pc' = "ack_done"
    /\ UNCHANGED ackByte
    /\ UNCHANGED <<pos, expired, header_index, command, lenByte, length, payload,
                   packet, result>>
    /\ UNCHANGED <<inputVars, encoderVars, lengthVars, hostVars>>

NextAck == ConvertAck

SpecAck == InitAck /\ [][NextAck]_vars

(***************************************************************************)
(* The concrete extended commands: each decodes the extended packet and    *)
(* then compares the ext_command_id with its own.                          *)
(***************************************************************************)
\* per command: the id encode_request sends, the id the decode compares the
\* response with, the id the decode reports as expected in ExpectedCommand
\* (kv.rs:39,49,50; kv.rs:123,133,134; remote.rs:34,42,43; file.rs:66,74,75;
\* file.rs:126,137,138; file.rs:280,288,289; file.rs:224,236,237;
\* file.rs:174,183,184)
CommandIds ==
    [KVRead              |-> [sends |-> 46, compares |-> 46, reports |-> 46],
     KVWrite             |-> [sends |-> 47, compares |-> 47, reports |-> 46],
     SwitchChannel       |-> [sends |-> 16, compares |-> 16, reports |-> 16],
     FileTransferInit    |-> [sends |-> 17, compares |-> 17, reports |-> 17],
     FileTransferExit    |-> [sends |-> 18, compares |-> 18, reports |-> 18],
     FileTransferWrite   |-> [sends |-> 19, compares |-> 19, reports |-> 19],
     FileTransferRead    |-> [sends |-> 20, compares |-> 20, reports |-> 20],
     FileTransferSetLink |-> [sends |-> 21, compares |-> 21, reports |-> 21]]

\* Err(DecodeError::ExpectedCommand(expected, actual))
ExpectedCommand(expected, actual) ==
    [status |-> "ExpectedCommand", expected |-> expected, actual |-> actual]

\* the id check of a command's decode, on the id of the decoded extended
\* response; "IdOk": the decode goes on to the response data
CheckCommandId(cmd, id) ==
    IF id # CommandIds[cmd].compares
    THEN ExpectedCommand(CommandIds[cmd].reports, id)
    ELSE [status |-> "IdOk", expected |-> 0, actual |-> id]

InitCommand ==
    /\ cmdName \in DOMAIN CommandIds
    /\ rxId \in 0..255
    /\ cmdResult = [status |-> "None", expected |-> 0, actual |-> 0]
    /\ pc = "command"
    /\ stream = <<>>
    /\ mode = "extended"
    /\ checks = VexExtPacketChecks
    /\ wellFormed = FALSE
    /\ silence = "eof"
    /\ DecoderInit
    /\ NoEncoder
    /\ NoLength
    /\ NoAck
    /\ NoSession
    /\ NoPad
    /\ NoTransfer
    /\ NoPlain

\* the command's decode once the extended decode has returned Ok with rxId
DecodeCommand ==
    /\ pc = "command"
    /\ cmdResult' = CheckCommandId(cmdName, rxId)
    /\ pc' = "command_done"
    /\ UNCHANGED <<cmdName, rxId>>
    /\ UNCHANGED <<pos, expired, header_index, command, lenByte, length, payload,
                   packet, result>>
    /\ UNCHANGED <<inputVars, encoderVars, lengthVars, ackVars, sessionVars, padVars,
                   transferVars, plainVars>>

NextCommand == DecodeCommand

SpecCommand == InitCommand /\ [][NextCommand]_vars

(***************************************************************************)
(* The framer on streams that never hold the sync pair: the device sends   *)
(* bytes without AA 55 and then falls silent.                              *)
(***************************************************************************)
\* no AA 55 anywhere in s
NoSync(s) == \A i \in 1..(Len(s) - 1) : ~(s[i] = 170 /\ s[i + 1] = 85)

InitTimeout ==
    /\ stream \in {s \in UNION {[1..n -> StreamBytes] : n \in 0..MaxSilent} : NoSync(s)}
    /\ silence \in {"eof", "block"}
    /\ mode = "simple"
    /\ checks = {}
    /\ wellFormed = FALSE
    /\ pc = "scan"
    /\ DecoderInit
    /\ NoEncoder
    /\ NoLength
    /\ NoAck
    /\ NoHost

NextTimeout ==
    \/ Tick
    \/ ScanStep

SpecTimeout == InitTimeout /\ [][NextTimeout]_vars

(***************************************************************************)
(* The device layer: VexDevice (device/vexdevice.rs) and V5FileHandle      *)
(* (device/handle.rs) over one shared Rc<RefCell<V5Protocol>>.  A call is  *)
(* a frame on `stack`; every write_all, flush and receive_extended on the  *)
(* stream is one step and is recorded in `log`.  The stream may fail any   *)
(* write or flush, and any receive may return Err.                         *)
(***************************************************************************)
\* most outermost calls made in one run
MaxOps == 3
\* most iterations of the loop of read_all / write_all
MaxChunks == 1

\* protocol/mod.rs:35-45
VexDeviceCommand ==
    [OpenFile |-> 17, ExitFile |-> 18, WriteFile |-> 19, ReadFile |-> 20,
     SetLinkedFilename |-> 21, DeleteFile |-> 27]

\* device/mod.rs:147-151
VexFiletransferFinished == [DoNothing |-> 0, RunProgram |-> 1, ShowRunScreen |-> 3]

\* the innermost call, and the calls around it
Top == stack[Len(stack)]
Callers == SubSeq(stack, 1, Len(stack) - 1)

\* the calls that keep `let mut protocol = self.protocol.borrow_mut()` until
\* they return (vexdevice.rs:246, 296, 441); the V5FileHandle methods borrow
\* for one statement at a time (handle.rs:33, 36, 55, 58, 108, 111)
ScopedBorrow(fn) == fn \in {"open", "file_transfer_close", "delete_file"}

\* the request a call sends in its exchange number ph
ExchangeCommand(fn, ph) ==
    CASE fn = "open" /\ ph = 1 -> "OpenFile"
      [] fn = "open" /\ ph = 2 -> "SetLinkedFilename"
      [] fn = "close" -> "ExitFile"
      [] fn = "file_transfer_close" -> "ExitFile"
      [] fn = "read_len" -> "ReadFile"
      [] fn = "write_some" -> "WriteFile"
      [] fn = "delete_file" -> "DeleteFile"

\* one I/O call on the stream
IoEvent(ev, ok) ==
    [ev |-> ev, cmd |-> ExchangeCommand(Top, phase),
     arg |-> IF ExchangeCommand(Top, phase) = "ExitFile" THEN onExit ELSE 0,
     ok |-> ok, by |-> stack[1]]

\* RefCell::borrow_mut: panics when a RefMut is live
BorrowFails == held # {}

\* the innermost call returns val: its RefMut is released, its caller resumes
Return(val) ==
    /\ stack' = Callers
    /\ held' = held \ {Top}
    /\ retval' = val
    /\ hpc' = IF Len(stack) = 1 THEN "idle" ELSE "resume"
    /\ ret' = IF Len(stack) = 1 THEN val ELSE ret

\* a panic: the run ends here
Panic(why) ==
    /\ hpc' = "panicked"
    /\ ret' = why
    /\ UNCHANGED <<stack, held, retval>>

\* AfterSend with write_some leaving its response unread
AfterSendWriteUnread(fn) == IF fn = "write_some" THEN "after" ELSE "recv"

\* where a call goes once send_extended has returned Ok: every call reads the
\* response next (handle.rs:36, 58, 111; vexdevice.rs:252, 275, 302, 445)
AfterSend(fn) == "recv"

\* handle.rs:172, whether Drop calls close
DropSendsClose(isClosed) == ~isClosed

\* Drop handing the error of its close on
DropResultPropagate(closeResult) == closeResult

\* handle.rs:173, unwrap_or_default: what Drop makes of the result of its close
DropResult(closeResult) == "Ok"

InitSession ==
    /\ stack = <<>>
    /\ hpc = "idle"
    /\ phase = 0
    /\ chunksLeft = 0
    /\ held = {}
    /\ log = <<>>
    /\ handle = "none"
    /\ closed = FALSE
    /\ devSlot = FALSE
    /\ fileMode = "None"
    /\ ret = "None"
    /\ retval = "None"
    /\ lastOp = "None"
    /\ opsLeft = MaxOps
    /\ closeCalls = 0
    /\ dropSaw = FALSE
    /\ dropMark = 0
    /\ onExit = 0
    /\ pc = "session"
    /\ stream = <<>>
    /\ mode = "extended"
    /\ checks = VexExtPacketChecks
    /\ wellFormed = FALSE
    /\ silence = "eof"
    /\ DecoderInit
    /\ NoEncoder
    /\ NoLength
    /\ NoAck
    /\ NoCommand
    /\ NoPad
    /\ NoTransfer
    /\ NoPlain

\* the caller starts an outermost call fn
Call(fn) ==
    /\ hpc = "idle"
    /\ opsLeft > 0
    /\ opsLeft' = opsLeft - 1
    /\ stack' = <<fn>>
    /\ hpc' = "enter"
    /\ lastOp' = fn
    /\ ret' = "None"
    /\ retval' = "None"
    /\ phase' = 0

\* VexDevice::open, vexdevice.rs:189; the caller holds no live handle (an
\* earlier one has been dropped)
CallOpen ==
    /\ handle # "live"
    /\ Call("open")
    /\ fileMode' \in {"Upload", "Download"}
    /\ handle' = "none"
    /\ UNCHANGED <<chunksLeft, held, log, closed, devSlot, closeCalls,
                   dropSaw, dropMark, onExit>>
    /\ UNCHANGED codecVars

\* V5FileHandle::close(on_exit), handle.rs:29
CallClose ==
    /\ handle = "live"
    /\ Call("close")
    /\ onExit' \in {VexFiletransferFinished.DoNothing, VexFiletransferFinished.RunProgram}
    /\ closeCalls' = closeCalls + 1
    /\ UNCHANGED <<chunksLeft, held, log, handle, closed, devSlot, fileMode,
                   dropSaw, dropMark>>
    /\ UNCHANGED codecVars

\* V5FileHandle::read_len / write_some, handle.rs:45, 95
CallTransfer ==
    /\ handle = "live"
    /\ \E fn \in {"read_len", "write_some"} : Call(fn)
    /\ UNCHANGED <<chunksLeft, held, log, handle, closed, devSlot, fileMode,
                   closeCalls, dropSaw, dropMark, onExit>>
    /\ UNCHANGED codecVars

\* V5FileHandle::read_all / write_all, handle.rs:68, 119: the loop runs once
\* per chunk of the file
CallTransferAll ==
    /\ handle = "live"
    /\ \E fn \in {"read_all", "write_all"} : Call(fn)
    /\ chunksLeft' \in 0..MaxChunks
    /\ UNCHANGED <<held, log, handle, closed, devSlot, fileMode,
                   closeCalls, dropSaw, dropMark, onExit>>
    /\ UNCHANGED codecVars

\* the handle goes out of scope: Drop::drop, handle.rs:171
CallDrop ==
    /\ handle = "live"
    /\ Call("drop")
    /\ dropSaw' = closed
    /\ dropMark' = Len(log)
    /\ UNCHANGED <<chunksLeft, held, log, handle, closed, devSlot, fileMode,
                   closeCalls, onExit>>
    /\ UNCHANGED codecVars

\* VexDevice::delete_file, vexdevice.rs:416
CallDeleteFile ==
    /\ Call("delete_file")
    /\ UNCHANGED <<chunksLeft, held, log, handle, closed, devSlot, fileMode,
                   closeCalls, dropSaw, dropMark, onExit>>
    /\ UNCHANGED codecVars

\* entry of open, file_transfer_close, delete_file: borrow_mut for the whole
\* body (vexdevice.rs:246, 296, 441)
EnterScoped ==
    /\ hpc = "enter"
    /\ ScopedBorrow(Top)
    /\ IF BorrowFails
       THEN Panic("PanicBorrow") /\ UNCHANGED phase
       ELSE /\ held' = held \cup {Top}
            /\ hpc' = "write"
            /\ phase' = 1
            /\ UNCHANGED <<stack, ret, retval>>
    /\ UNCHANGED <<chunksLeft, log, handle, closed, devSlot, fileMode, lastOp,
                   opsLeft, closeCalls, dropSaw, dropMark, onExit>>
    /\ UNCHANGED codecVars

\* entry of close, read_len, write_some: straight to the send
EnterMethod ==
    /\ hpc = "enter"
    /\ Top \in {"close", "read_len", "write_some"}
    /\ hpc' = "write"
    /\ phase' = 1
    /\ UNCHANGED <<stack, held, ret, retval>>
    /\ UNCHANGED <<chunksLeft, log, handle, closed, devSlot, fileMode, lastOp,
                   opsLeft, closeCalls, dropSaw, dropMark, onExit>>
    /\ UNCHANGED codecVars

\* Drop::drop, handle.rs:171-175: close(DoNothing) unless closed
EnterDrop ==
    /\ hpc = "enter"
    /\ Top = "drop"
    /\ IF DropSendsClose(closed)
       THEN /\ stack' = Append(stack, "close")
            /\ onExit' = VexFiletransferFinished.DoNothing
            /\ UNCHANGED <<hpc, held, ret, retval, handle>>
       ELSE /\ Return("Ok")
            /\ handle' = "dropped"
            /\ UNCHANGED onExit
    /\ UNCHANGED <<phase, chunksLeft, log, closed, devSlot, fileMode, lastOp,
                   opsLeft, closeCalls, dropSaw, dropMark>>
    /\ UNCHANGED codecVars

\* the head of the loop of read_all (handle.rs:76) and write_all (handle.rs:144)
EnterLoop ==
    /\ hpc = "enter"
    /\ Top \in {"read_all", "write_all"}
    /\ IF chunksLeft = 0
       THEN Return("Ok")
       ELSE /\ stack' = Append(stack, IF Top = "read_all" THEN "read_len" ELSE "write_some")
            /\ UNCHANGED <<hpc, held, ret, retval>>
    /\ UNCHANGED <<phase, chunksLeft, log, handle, closed, devSlot, fileMode, lastOp,
                   opsLeft, closeCalls, dropSaw, dropMark, onExit>>
    /\ UNCHANGED codecVars

\* send_extended, first half: write_all of the request (protocol/v5.rs:236-239);
\* a V5FileHandle method borrows the protocol for the statement
SendWrite ==
    /\ hpc = "write"
    /\ IF ~ScopedBorrow(Top) /\ BorrowFails
       THEN Panic("PanicBorrow") /\ UNCHANGED log
       ELSE \E ok \in BOOLEAN :
               /\ log' = Append(log, IoEvent("write", ok))
               /\ IF ok
                  THEN hpc' = "flush" /\ UNCHANGED <<stack, held, ret, retval>>
                  ELSE Return("Err")
    /\ UNCHANGED <<phase, chunksLeft, handle, closed, devSlot, fileMode, lastOp,
                   opsLeft, closeCalls, dropSaw, dropMark, onExit>>
    /\ UNCHANGED codecVars

\* send_extended, second half: flush (protocol/v5.rs:242); a flushed ExitFile
\* reaches the device and ends its transfer
SendFlush ==
    /\ hpc = "flush"
    /\ \E ok \in BOOLEAN :
           /\ log' = Append(log, IoEvent("flush", ok))
           /\ devSlot' = IF ok /\ ExchangeCommand(Top, phase) = "ExitFile"
                         THEN FALSE ELSE devSlot
           /\ IF ok
              THEN hpc' = AfterSend(Top) /\ UNCHANGED <<stack, held, ret, retval>>
              ELSE Return("Err")
    /\ UNCHANGED <<phase, chunksLeft, handle, closed, fileMode, lastOp,
                   opsLeft, closeCalls, dropSaw, dropMark, onExit>>
    /\ UNCHANGED codecVars

\* receive_extended (protocol/v5.rs:183-229) returns Ok or Err; Ok for an
\* OpenFile request means the device has acknowledged it and holds a transfer
Receive ==
    /\ hpc = "recv"
    /\ IF ~ScopedBorrow(Top) /\ BorrowFails
       THEN Panic("PanicBorrow") /\ UNCHANGED <<log, devSlot>>
       ELSE \E ok \in BOOLEAN :
               /\ log' = Append(log, IoEvent("read", ok))
               /\ devSlot' = IF ok /\ ExchangeCommand(Top, phase) = "OpenFile"
                             THEN TRUE ELSE devSlot
               /\ IF ok
                  THEN hpc' = "after" /\ UNCHANGED <<stack, held, ret, retval>>
                  ELSE Return("Err")
    /\ UNCHANGED <<phase, chunksLeft, handle, closed, fileMode, lastOp,
                   opsLeft, closeCalls, dropSaw, dropMark, onExit>>
    /\ UNCHANGED codecVars

\* open after an exchange, vexdevice.rs:254-288: the OpenFile response is
\* deserialized (which fails on a short response); Upload goes on to
\* SetLinkedFilename; then the handle is built
AfterOpen ==
    /\ hpc = "after"
    /\ Top = "open"
    /\ IF phase = 1
       THEN \E parsed \in BOOLEAN :
               IF ~parsed
               THEN Return("Err") /\ UNCHANGED <<phase, handle, closed>>
               ELSE IF fileMode = "Upload"
               THEN /\ phase' = 2
                    /\ hpc' = "write"
                    /\ UNCHANGED <<stack, held, ret, retval, handle, closed>>
               ELSE /\ Return("Ok")
                    /\ handle' = "live"
                    /\ closed' = FALSE
                    /\ UNCHANGED phase
       ELSE /\ Return("Ok")
            /\ handle' = "live"
            /\ closed' = FALSE
            /\ UNCHANGED phase
    /\ UNCHANGED <<chunksLeft, log, devSlot, fileMode, lastOp,
                   opsLeft, closeCalls, dropSaw, dropMark, onExit>>
    /\ UNCHANGED codecVars

\* close after its exchange, handle.rs:38-41
AfterClose ==
    /\ hpc = "after"
    /\ Top = "close"
    /\ closed' = TRUE
    /\ Return("Ok")
    /\ UNCHANGED <<phase, chunksLeft, log, handle, devSlot, fileMode, lastOp,
                   opsLeft, closeCalls, dropSaw, dropMark, onExit>>
    /\ UNCHANGED codecVars

\* read_len after its exchange, handle.rs:61-64: the slice of the response
\* panics when the response is shorter than 3 + n_bytes
AfterReadLen ==
    /\ hpc = "after"
    /\ Top = "read_len"
    /\ \/ Return("Ok")
       \/ Panic("PanicIndex")
    /\ UNCHANGED <<phase, chunksLeft, log, handle, closed, devSlot, fileMode, lastOp,
                   opsLeft, closeCalls, dropSaw, dropMark, onExit>>
    /\ UNCHANGED codecVars

\* write_some (handle.rs:113) and file_transfer_close (vexdevice.rs:305)
\* after their exchange
AfterSimple ==
    /\ hpc = "after"
    /\ Top \in {"write_some", "file_transfer_close"}
    /\ Return("Ok")
    /\ UNCHANGED <<phase, chunksLeft, log, handle, closed, devSlot, fileMode, lastOp,
                   opsLeft, closeCalls, dropSaw, dropMark, onExit>>
    /\ UNCHANGED codecVars

\* delete_file after the DeleteFile exchange, vexdevice.rs:448: it calls
\* file_transfer_close(None) with `protocol` still in scope
AfterDeleteFile ==
    /\ hpc = "after"
    /\ Top = "delete_file"
    /\ stack' = Append(stack, "file_transfer_close")
    /\ onExit' = VexFiletransferFinished.DoNothing
    /\ hpc' = "enter"
    /\ UNCHANGED <<held, ret, retval>>
    /\ UNCHANGED <<phase, chunksLeft, log, handle, closed, devSlot, fileMode, lastOp,
                   opsLeft, closeCalls, dropSaw, dropMark>>
    /\ UNCHANGED codecVars

\* a caller resumes after the call it made has returned: Drop throws the
\* result of its close away (handle.rs:173); read_all / write_all apply `?`
\* and go on to the next chunk (handle.rs:86, 159); delete_file applies `?`
\* and returns Ok(()) (vexdevice.rs:448-450)
Resume ==
    /\ hpc = "resume"
    /\ CASE Top = "drop" ->
              /\ Return(DropResult(retval))
              /\ handle' = "dropped"
              /\ UNCHANGED chunksLeft
         [] Top \in {"read_all", "write_all"} ->
              /\ IF retval # "Ok"
                 THEN Return(retval) /\ UNCHANGED chunksLeft
                 ELSE /\ chunksLeft' = chunksLeft - 1
                      /\ hpc' = "enter"
                      /\ UNCHANGED <<stack, held, ret, retval>>
              /\ UNCHANGED handle
         [] Top = "delete_file" ->
              /\ Return(retval)
              /\ UNCHANGED <<handle, chunksLeft>>
    /\ UNCHANGED <<phase, log, closed, devSlot, fileMode, lastOp,
                   opsLeft, closeCalls, dropSaw, dropMark, onExit>>
    /\ UNCHANGED codecVars

NextSession ==
    \/ CallOpen
    \/ CallClose
    \/ CallTransfer
    \/ CallTransferAll
    \/ CallDrop
    \/ CallDeleteFile
    \/ EnterScoped
    \/ EnterMethod
    \/ EnterDrop
    \/ EnterLoop
    \/ SendWrite
    \/ SendFlush
    \/ Receive
    \/ AfterOpen
    \/ AfterClose
    \/ AfterReadLen
    \/ AfterSimple
    \/ AfterDeleteFile
    \/ Resume

SpecSession == InitSession /\ [][NextSession]_vars

(***************************************************************************)
(* The claims.                                                             *)
(***************************************************************************)
\* the status bytes from_u8 is documented to know as NACKs: 0xCE, 0xD0..0xDB
NackBytes == {206} \cup (208..219)

\* where the first AA 55 pair of s starts, 0 when there is none
FirstSync(s) ==
    IF \E i \in 1..(Len(s) - 1) : s[i] = 170 /\ s[i + 1] = 85
    THEN CHOOSE i \in 1..(Len(s) - 1) :
            /\ s[i] = 170 /\ s[i + 1] = 85
            /\ \A j \in 1..(i - 1) : ~(s[j] = 170 /\ s[j + 1] = 85)
    ELSE 0

\* the packet whose header starts at s[i]: its length form, length and payload
SyncWide(s, i) == s[i + 2] = 86 /\ s[i + 3] >= 128
SyncLength(s, i) ==
    IF SyncWide(s, i) THEN ((s[i + 3] - 128) * 256) + s[i + 4] ELSE s[i + 3]
SyncPayloadStart(s, i) == IF SyncWide(s, i) THEN i + 5 ELSE i + 4
FullPacketAt(s, i) ==
    /\ i + 3 <= Len(s)
    /\ SyncWide(s, i) => i + 4 <= Len(s)
    /\ SyncPayloadStart(s, i) + SyncLength(s, i) - 1 <= Len(s)

\* C1: whenever the first AA 55 pair of the stream starts a full packet, the
\* simple-packet decode, unless the deadline cut it short, returns that packet's
\* command and payload, whatever bytes precede the pair (a 0xAA included).
C1_Resynchronization ==
    (/\ pc = "done"
     /\ mode = "simple"
     /\ result.status # "HeaderTimeout"
     /\ FirstSync(stream) # 0
     /\ FullPacketAt(stream, FirstSync(stream)))
    => LET i == FirstSync(stream)
       IN result = OkResult(stream[i + 2],
                            SubSeq(stream, SyncPayloadStart(stream, i),
                                   SyncPayloadStart(stream, i) + SyncLength(stream, i) - 1))

\* C2: after the sync the framer reads one command byte and one length byte;
\* a third byte is read exactly when the command is 0x56 and the length byte
\* has its top bit set, and then length = ((length byte & 0x7F) << 8) | third
\* byte; otherwise length = the length byte; then exactly `length` payload
\* bytes are read.  `packet` is the header and the bytes consumed since.
C2_LengthRule ==
    LET wide == command = 86 /\ lenByte >= 128
        fieldBytes == IF wide THEN 3 ELSE 2
        rule == IF wide THEN ((lenByte - 128) * 256) + packet[5] ELSE lenByte
    IN /\ pc = "lenlow" =>
            /\ wide
            /\ packet = <<170, 85, command, lenByte>>
            /\ SubSeq(stream, pos - 3, pos) = packet
       /\ pc = "payload" =>
            /\ Len(packet) = 2 + fieldBytes
            /\ SubSeq(stream, pos - Len(packet) + 1, pos) = packet
            /\ command = packet[3] /\ lenByte = packet[4]
            /\ length = rule
       /\ (pc = "done" /\ mode = "simple" /\ result.status = "Ok") =>
            /\ Len(packet) = 2 + fieldBytes + length
            /\ SubSeq(stream, pos - Len(packet) + 1, pos) = packet
            /\ command = packet[3] /\ lenByte = packet[4]
            /\ length = rule
            /\ Len(payload) = length
            /\ payload = SubSeq(stream, pos - length + 1, pos)
            /\ result = OkResult(command, payload)

\* a packet with a two-byte length field and a payload has been decoded
C2_Witness ==
    /\ pc = "done" /\ mode = "simple" /\ result.status = "Ok"
    /\ command = 86 /\ lenByte >= 128 /\ length >= 1

\* C3: for every payload length n in 0..0x7FFF the length field the encoder
\* emits (one byte when n <= 0x80, two otherwise) reads back as n under the
\* framer's rule, and a one-byte field never has its top bit set.
C3_LengthAgreement ==
    /\ pc \in {"len_read", "len_done"} =>
            /\ Len(lenField) = (IF lenN <= 128 THEN 1 ELSE 2)
            /\ Len(lenField) = 1 => lenField[1] < 128
    /\ pc = "len_done" => lenRead = lenN

\* the length varint of the encoded request: one byte up to 0x80, else two
VarintBytes == Len(encoded) - (4 + 1 + 1 + Len(reqPayload) + 2)
VarintRule == VarintBytes = (IF Len(reqPayload) <= 128 THEN 1 ELSE 2)

\* C4 as stated: decoding the encoded request gives the request back, and the
\* length varint has one byte up to 0x80 and two above.
C4_RoundTrip ==
    /\ pc = "encoded" => VarintRule
    /\ (pc = "done" /\ encoded # <<>>) => result = OkResult(reqId, reqPayload)

\* C4, amended: the length varint has one byte up to 0x80 and two above, and
\* decoding the encoded request never gives the request back (the request
\* starts C9 36 B8 47, the decoder looks for AA 55): it ends in an error or in
\* the id and data of a response frame found inside the payload.
C4_NoRoundTrip ==
    /\ pc = "encoded" => VarintRule
    /\ (pc = "done" /\ encoded # <<>>) =>
            /\ ~(result.status = "Ok" /\ result.id = reqId /\ result.data = reqPayload)
            /\ result.status = "Ok" => Len(result.data) < Len(reqPayload)

\* the decode of an encoded request has returned Ok, with other contents
C4_Witness ==
    /\ pc = "done" /\ encoded # <<>>
    /\ result.status = "Ok"
    /\ Len(reqPayload) >= 8

\* C5: the encoded request is C9 36 B8 47, 0x56, id, the length field, the
\* payload, and the CRC16/XMODEM of all these bytes, high byte first; its
\* length is 4 + 1 + 1 + (1 or 2) + len + 2.  (CRC16/XMODEM of "123456789"
\* is 0x31C3.)
C5_EncodeLayout ==
    pc = "encoded" =>
         LET n == Len(reqPayload)
             field == IF n <= 128 THEN <<n>> ELSE <<BitOr(n \div 256, 128), n % 256>>
             head == <<201, 54, 184, 71, 86, reqId>> \o field \o reqPayload
         IN /\ Crc16(<<49, 50, 51, 52, 53, 54, 55, 56, 57>>) = 12739
            /\ Len(encoded) = 4 + 1 + 1 + Len(field) + n + 2
            /\ SubSeq(encoded, 1, Len(head)) = head
            /\ encoded[Len(head) + 1] = Crc16(head) \div 256
            /\ encoded[Len(head) + 2] = Crc16(head) % 256

\* a request with a two-byte length field has been encoded
C5_Witness ==
    /\ pc = "encoded"
    /\ Len(reqPayload) = 129
    /\ Len(encoded) = 139

\* the last two bytes of pkt are the CRC16 of the bytes before them
TrailerOk(pkt) ==
    /\ Len(pkt) >= 2
    /\ LET crc == Crc16(SubSeq(pkt, 1, Len(pkt) - 2))
       IN pkt[Len(pkt) - 1] = crc \div 256 /\ pkt[Len(pkt)] = crc % 256

\* C6: the CRC16 of a complete encoded request, trailer included, is 0, and
\* the decoder's CRC check never rejects a received packet whose trailer is
\* the CRC16 of the bytes before it.
C6_CrcInvariant ==
    /\ pc = "encoded" => Crc16(encoded) = 0
    /\ (pc = "done" /\ result.status = "CrcError") => ~TrailerOk(packet)
    /\ (pc = "done" /\ mode = "extended" /\ "CRC" \in checks /\ command = 86
        /\ Len(packet) >= 6 /\ TrailerOk(packet)) => result.status # "CrcError"

\* a packet with a correct trailer has passed the CRC check
C6_Witness ==
    /\ pc = "done" /\ "CRC" \in checks
    /\ result.status = "Ok"
    /\ TrailerOk(packet)

\* the ACK check of decode_extended has been reached
AckCheckReached ==
    /\ pc = "done" /\ mode = "extended"
    /\ command = 86
    /\ Len(payload) >= 2
    /\ "CRC" \in checks => Crc16(packet) = 0

C9_DataExtraction ==
    (/\ pc = "done" /\ mode = "extended" /\ checks = VexExtPacketChecks
     /\ wellFormed
     /\ Len(payload) >= 2 /\ payload[2] = 118) =>
        /\ result.status = "Ok"
        /\ result.id = payload[1]
        /\ result.data = SubSeq(payload, 3, Len(payload) - 2)
        /\ Len(result.data) = length - 4
        /\ payload = SubSeq(stream, Len(stream) - length + 1, Len(stream))

\* a response with data has been decoded under all checks
C9_Witness ==
    /\ pc = "done" /\ checks = VexExtPacketChecks /\ wellFormed
    /\ result.status = "Ok"
    /\ Len(result.data) = 2

\* the data extraction of decode_extended has been reached without the ACK check
SliceReachedNoAck ==
    /\ pc = "done" /\ mode = "extended"
    /\ "ACK" \notin checks
    /\ command = 86
    /\ Len(payload) >= 3
    /\ "CRC" \in checks => Crc16(packet) = 0

U16Max == 65535

\* a + b on u16
AddU16(a, b) ==
    IF a + b <= U16Max
    THEN {PadOk(a + b)}
    ELSE {PadPanic, PadOk((a + b) % (U16Max + 1))}

\* a - b on u16
SubU16(a, b) ==
    IF a >= b
    THEN {PadOk(a - b)}
    ELSE {PadPanic, PadOk((a - b) % (U16Max + 1))}

\* x & !3 on u16
AndNot3(x) == x - (x % 4)

\* file.rs:208-212
FileTransferReadPad(n) ==
    IF n % 4 = 0
    THEN {PadOk(n)}
    ELSE UNION {IF s.status = "Panic" THEN {PadPanic} ELSE SubU16(s.value, n % 4) :
                    s \in AddU16(n, 4)}

\* handle.rs:48
ReadLenPad(n) ==
    {IF s.status = "Panic" THEN PadPanic ELSE PadOk(AndNot3(s.value)) :
        s \in AddU16(n, 3)}

InitPadding ==
    /\ n_bytes \in 0..U16Max
    /\ nbytes = PadNone
    /\ n_bytes_pad = PadNone
    /\ pc = "pad"
    /\ stream = <<>>
    /\ mode = "extended"
    /\ checks = VexExtPacketChecks
    /\ wellFormed = FALSE
    /\ silence = "eof"
    /\ DecoderInit
    /\ NoEncoder
    /\ NoLength
    /\ NoAck
    /\ NoCommand
    /\ NoSession
    /\ NoTransfer
    /\ NoPlain

\* FileTransferRead(offset, n_bytes).encode_request()
EncodeReadRequest ==
    /\ pc = "pad"
    /\ nbytes.status = "None"
    /\ nbytes' \in FileTransferReadPad(n_bytes)
    /\ UNCHANGED <<n_bytes, n_bytes_pad>>
    /\ UNCHANGED <<decoderVars, inputVars, encoderVars, lengthVars, ackVars,
                   commandVars, sessionVars, transferVars, plainVars>>

\* V5FileHandle::read_len(offset, n_bytes), up to the payload
ReadLenRequest ==
    /\ pc = "pad"
    /\ n_bytes_pad.status = "None"
    /\ n_bytes_pad' \in ReadLenPad(n_bytes)
    /\ UNCHANGED <<n_bytes, nbytes>>
    /\ UNCHANGED <<decoderVars, inputVars, encoderVars, lengthVars, ackVars,
                   commandVars, sessionVars, transferVars, plainVars>>

NextPadding == EncodeReadRequest \/ ReadLenRequest

SpecPadding == InitPadding /\ [][NextPadding]_vars

(***************************************************************************)
(* Chunked file transfer: V5FileHandle::write_all / write_some and         *)
(* read_all / read_len (device/handle.rs), and the payload built by        *)
(* FileTransferWrite::encode_request (commands/file.rs).  The device       *)
(* answers every request: it stores the data bytes of a write request at   *)
(* the request's address and returns the stored bytes on a read.           *)
(***************************************************************************)
\* handle.rs:72, read_all's max_size
ReadMaxSize == 512

\* device/mod.rs, VexInitialFileMetadata::default().addr = 0x3800000
DefaultAddr == 58720256

SmallPacket == 4
SmallFile == 6
MaxFile == 1025

\* the max_packet_size values a device negotiates in the model
PacketSizes == {0, 1, SmallPacket, 48, 512}

\* the file sizes a device reports in the model
FileSizes == {0, 1, SmallFile, 49, 513, MaxFile}

\* the lengths of the data handed to write_all
DataLens(m, f) == {0, 1, f} \cup {n \in {m - 1, m, m + 1} : n >= 0}

\* the k-th byte of the data handed to write_all: never 0, so that padding
\* shows
DataByte(k) == ((k * 37 + 11) % 255) + 1

DataOf(n) == [k \in 1..n |-> DataByte(k)]

\* a + b on u32.  Every address, size and index of this model is below 2^31,
\* so the sum of two of them stays inside 0..2^32-1 and is the exact sum.
AddU32(a, b) == {PadOk(a + b)}

\* the u32 with its two low bytes in the wrong order
LE32LowSwapped(v) ==
    <<(v \div 256) % 256, v % 256, (v \div 65536) % 256, (v \div 16777216) % 256>>

\* the u32 the device reads from 4 little-endian bytes
FromLE32(b) == b[1] + 256 * b[2] + 65536 * b[3] + 16777216 * b[4]

\* u32::to_le_bytes, bincode::serialize of a u32
LE32(v) ==
    <<v % 256, (v \div 256) % 256, (v \div 65536) % 256, (v \div 16777216) % 256>>

\* Vec::resize(n, 0)
Resize(d, n) ==
    IF n >= Len(d)
    THEN d \o [k \in 1..(n - Len(d)) |-> 0]
    ELSE SubSeq(d, 1, n)

\* write_some padding every chunk with at least one zero byte
WriteSomePayloadOverPad(offset, d) ==
    LE32(offset) \o Resize(d, AndNot3(Len(d) + 4))

\* handle.rs:98-105, the payload of write_some(offset, d)
WriteSomePayload(offset, d) ==
    LE32(offset) \o Resize(d, AndNot3(Len(d) + 3))

\* file.rs:264-278, the packet FileTransferWrite(a, d) wraps
FileTransferWritePacket(a, d) ==
    LE32(a) \o Resize(d, IF Len(d) % 4 = 0
                         THEN Len(d)
                         ELSE Len(d) + 4 - (Len(d) % 4))

\* handle.rs:124-125, write_all's max_size
MaxSize == (max_packet_size \div 2) + (max_packet_size \div 4)

\* handle.rs:131-135, write_all's size
Size ==
    IF Len(wdata) > file_size
    THEN file_size
    ELSE Len(wdata)

\* handle.rs:144-150, write_all's packet_size at index i
WritePacketSize(i) ==
    IF Size < MaxSize
    THEN {PadOk(Size % (U16Max + 1))}
    ELSE {IF s.status = "Panic" THEN PadPanic
          ELSE IF s.value > Size THEN PadOk((Size - i) % (U16Max + 1))
          ELSE PadOk(MaxSize) :
                s \in AddU32(i, MaxSize)}

\* read_all asking for a full chunk every time
ReadPacketSizeFull(i, length_) == {PadOk(ReadMaxSize)}

\* handle.rs:78-82, read_all's packet_size at index i
ReadPacketSize(i, length_) ==
    {IF s.status = "Panic" THEN PadPanic
     ELSE IF s.value > length_
          THEN IF length_ - i <= U16Max
               THEN PadOk(length_ - i)
               ELSE [status |-> "Err", value |-> 0]
     ELSE PadOk(ReadMaxSize) :
            s \in AddU32(i, ReadMaxSize)}

\* protocol/v5.rs:42-70, the length of create_extended_packet(command,
\* payload) for a payload of n bytes: header C9 36 B8 47, 0x56, the command,
\* the length in one byte or, above 0x80, in two, the payload, the CRC16
CreateExtendedPacketLen(n) ==
    4 + 1 + 1 + (IF n % (U16Max + 1) > 128 THEN 2 ELSE 1) + n + 2

\* the device stores bytes at address a
StoreAt(fl, a, bytes) ==
    [k \in DOMAIN fl |->
        IF k - 1 \in (a - addr)..(a - addr + Len(bytes) - 1)
        THEN bytes[k - (a - addr)]
        ELSE fl[k]]

\* the device returns n bytes from address a
ReadAt(fl, a, n) == [k \in 1..n |-> fl[a - addr + k]]

InitTransfer ==
    /\ max_packet_size \in PacketSizes
    /\ file_size \in FileSizes
    /\ addr = DefaultAddr
    /\ \E n \in DataLens(max_packet_size, file_size) : wdata = DataOf(n)
    /\ flash = [k \in 1..(AndNot3(MaxFile + 3) + ReadMaxSize) |-> 255]
    /\ loop_i = 0
    /\ how_much = 0
    /\ packet_size = PadNone
    /\ requests = <<>>
    /\ buf = <<>>
    /\ encodedWrite = <<>>
    /\ tpc = "start"
    /\ tret = PadNone
    /\ pc = "transfer"
    /\ stream = <<>>
    /\ mode = "extended"
    /\ checks = VexExtPacketChecks
    /\ wellFormed = FALSE
    /\ silence = "eof"
    /\ DecoderInit
    /\ NoEncoder
    /\ NoLength
    /\ NoAck
    /\ NoCommand
    /\ NoSession
    /\ NoPad
    /\ NoPlain

\* FileTransferWrite(addr, data).encode_request(), up to the extended wrapping
EncodeWriteRequest ==
    /\ tpc = "start"
    /\ encodedWrite = <<>>
    /\ encodedWrite' = FileTransferWritePacket(addr, wdata)
    /\ UNCHANGED <<max_packet_size, file_size, addr, wdata, loop_i, how_much,
                   packet_size, requests, flash, buf, tpc, tret>>
    /\ UNCHANGED <<decoderVars, inputVars, encoderVars, lengthVars, ackVars,
                   commandVars, sessionVars, padVars, plainVars>>

\* write_all up to the loop: step_by panics on a step of 0
WriteAllEnter ==
    /\ tpc = "start"
    /\ IF MaxSize = 0
       THEN /\ tpc' = "panicked"
            /\ tret' = [status |-> "PanicStepBy", value |-> 0]
       ELSE /\ tpc' = "write_loop"
            /\ UNCHANGED tret
    /\ loop_i' = 0
    /\ how_much' = 0
    /\ UNCHANGED <<max_packet_size, file_size, addr, wdata, packet_size, requests,
                   flash, buf, encodedWrite>>
    /\ UNCHANGED <<decoderVars, inputVars, encoderVars, lengthVars, ackVars,
                   commandVars, sessionVars, padVars, plainVars>>

\* one iteration of write_all's loop, write_some included
WriteAllStep ==
    /\ tpc = "write_loop"
    /\ loop_i < Size
    /\ \E ps \in WritePacketSize(loop_i), a \in AddU32(addr, loop_i) :
        /\ packet_size' = ps
        /\ IF ps.status # "Ok" \/ a.status # "Ok"
           THEN /\ tpc' = "panicked"
                /\ tret' = PadPanic
                /\ UNCHANGED <<requests, flash, how_much, loop_i>>
           ELSE LET payload_ == SubSeq(wdata, loop_i + 1, loop_i + ps.value)
                    sent == WriteSomePayload(a.value, payload_)
                IN  /\ requests' = Append(requests,
                            [cmd |-> "WriteFile", addr |-> a.value,
                             n |-> ps.value, payload |-> sent,
                             wire |-> CreateExtendedPacketLen(Len(sent))])
                    /\ flash' = StoreAt(flash, FromLE32(SubSeq(sent, 1, 4)),
                                        SubSeq(sent, 5, Len(sent)))
                    /\ how_much' = how_much + ps.value
                    /\ loop_i' = loop_i + MaxSize
                    /\ UNCHANGED <<tpc, tret>>
    /\ UNCHANGED <<max_packet_size, file_size, addr, wdata, buf, encodedWrite>>
    /\ UNCHANGED <<decoderVars, inputVars, encoderVars, lengthVars, ackVars,
                   commandVars, sessionVars, padVars, plainVars>>

\* write_all returns Ok(how_much)
WriteAllReturn ==
    /\ tpc = "write_loop"
    /\ loop_i >= Size
    /\ tret' = PadOk(how_much)
    /\ tpc' = "written"
    /\ UNCHANGED <<max_packet_size, file_size, addr, wdata, loop_i, how_much,
                   packet_size, requests, flash, buf, encodedWrite>>
    /\ UNCHANGED <<decoderVars, inputVars, encoderVars, lengthVars, ackVars,
                   commandVars, sessionVars, padVars, plainVars>>

\* read_all up to the loop
ReadAllEnter ==
    /\ tpc = "written"
    /\ buf' = <<>>
    /\ loop_i' = 0
    /\ tret' = PadNone
    /\ tpc' = "read_size"
    /\ UNCHANGED <<max_packet_size, file_size, addr, wdata, how_much, packet_size,
                   requests, flash, encodedWrite>>
    /\ UNCHANGED <<decoderVars, inputVars, encoderVars, lengthVars, ackVars,
                   commandVars, sessionVars, padVars, plainVars>>

\* read_all's loop, handle.rs:78-82: the packet size of this iteration
ReadAllSize ==
    /\ tpc = "read_size"
    /\ loop_i < file_size
    /\ \E ps \in ReadPacketSize(loop_i, file_size) :
        /\ packet_size' = ps
        /\ IF ps.status = "Ok"
           THEN tpc' = "read_len" /\ UNCHANGED tret
           ELSE /\ tpc' = IF ps.status = "Panic" THEN "panicked" ELSE "done"
                /\ tret' = ps
    /\ UNCHANGED <<max_packet_size, file_size, addr, wdata, loop_i, how_much,
                   requests, flash, buf, encodedWrite>>
    /\ UNCHANGED <<decoderVars, inputVars, encoderVars, lengthVars, ackVars,
                   commandVars, sessionVars, padVars, plainVars>>

\* read_all's loop, handle.rs:85: read_len(i + addr, (packet_size + 3) & !3)
\* and data.extend
ReadAllRead ==
    /\ tpc = "read_len"
    /\ \E a \in AddU32(loop_i, addr), n \in AddU16(packet_size.value, 3) :
        IF a.status # "Ok" \/ n.status # "Ok"
        THEN /\ tpc' = "panicked"
             /\ tret' = PadPanic
             /\ UNCHANGED <<requests, buf, loop_i>>
        ELSE \E np \in ReadLenPad(AndNot3(n.value)) :
                IF np.status # "Ok"
                THEN /\ tpc' = "panicked"
                     /\ tret' = PadPanic
                     /\ UNCHANGED <<requests, buf, loop_i>>
                ELSE /\ requests' = Append(requests,
                            [cmd |-> "ReadFile", addr |-> a.value,
                             n |-> np.value, payload |-> <<>>,
                             wire |-> CreateExtendedPacketLen(4 + 2)])
                     /\ buf' = buf \o SubSeq(ReadAt(flash, a.value, np.value),
                                             1, AndNot3(n.value))
                     /\ loop_i' = loop_i + ReadMaxSize
                     /\ tpc' = "read_size"
                     /\ UNCHANGED tret
    /\ UNCHANGED <<max_packet_size, file_size, addr, wdata, how_much, packet_size,
                   flash, encodedWrite>>
    /\ UNCHANGED <<decoderVars, inputVars, encoderVars, lengthVars, ackVars,
                   commandVars, sessionVars, padVars, plainVars>>

\* read_all returns data[..length]
ReadAllReturn ==
    /\ tpc = "read_size"
    /\ loop_i >= file_size
    /\ IF Len(buf) >= file_size
       THEN /\ buf' = SubSeq(buf, 1, file_size)
            /\ tret' = PadOk(file_size)
            /\ tpc' = "done"
       ELSE /\ tret' = PadPanic
            /\ tpc' = "panicked"
            /\ UNCHANGED buf
    /\ UNCHANGED <<max_packet_size, file_size, addr, wdata, loop_i, how_much,
                   packet_size, requests, flash, encodedWrite>>
    /\ UNCHANGED <<decoderVars, inputVars, encoderVars, lengthVars, ackVars,
                   commandVars, sessionVars, padVars, plainVars>>

NextTransfer ==
    \/ EncodeWriteRequest
    \/ WriteAllEnter
    \/ WriteAllStep
    \/ WriteAllReturn
    \/ ReadAllEnter
    \/ ReadAllSize
    \/ ReadAllRead
    \/ ReadAllReturn

SpecTransfer == InitTransfer /\ [][NextTransfer]_vars

(***************************************************************************)
(* The data of the OpenFile (InitFileTransfer) response, decoded by        *)
(* FileTransferInit::decode_response (commands/file.rs) and by             *)
(* VexDevice::open (device/vexdevice.rs).  openData is the response data   *)
(* that follows the command id and the ACK byte.                           *)
(***************************************************************************)
MaxOpenLen == 11

\* the byte values of the response data in the model
OpenBytes == {0, 127}

OpenDatas == UNION {[1..n -> OpenBytes] : n \in 0..MaxOpenLen}

\* u16::from_le_bytes
FromLE16(b) == b[1] + 256 * b[2]

\* file.rs:78-93
DecodeInitResponse(d) ==
    IF Len(d) < 2 THEN [status |-> "PacketLengthError"]
    ELSE IF Len(d) < 4 THEN [status |-> "PacketLengthError"]
    ELSE IF Len(d) < 8 THEN [status |-> "PacketLengthError"]
    ELSE [status |-> "Ok",
          max_packet_size |-> FromLE16(SubSeq(d, 1, 2)),
          file_size |-> FromLE16(SubSeq(d, 3, 4)),
          crc |-> FromLE32(SubSeq(d, 5, 8))]

\* vexdevice.rs:255-260, bincode::deserialize::<(u16, u32, u32)>
DeserializeOpen(d) ==
    IF Len(d) < 2 + 4 + 4 THEN [status |-> "Err"]
    ELSE [status |-> "Ok",
          max_packet_size |-> FromLE16(SubSeq(d, 1, 2)),
          file_size |-> FromLE32(SubSeq(d, 3, 6)),
          crc |-> FromLE32(SubSeq(d, 7, 10))]

InitOpenResponse ==
    /\ openData \in OpenDatas
    /\ initResponse = [status |-> "None"]
    /\ openMeta = [status |-> "None"]
    /\ pc = "open_response"
    /\ stream = <<>>
    /\ mode = "extended"
    /\ checks = VexExtPacketChecks
    /\ wellFormed = FALSE
    /\ silence = "eof"
    /\ DecoderInit
    /\ NoEncoder
    /\ NoLength
    /\ NoAck
    /\ NoCommand
    /\ NoSession
    /\ NoPad
    /\ NoTransfer
    /\ NoKV
    /\ NoReject
    /\ NoLate

\* FileTransferInit::decode_response, after the extended decode and the id
\* check
DecodeInit ==
    /\ pc = "open_response"
    /\ initResponse.status = "None"
    /\ initResponse' = DecodeInitResponse(openData)
    /\ UNCHANGED <<openData, openMeta>>
    /\ UNCHANGED <<baseVars, kvVars, rejectVars, lateVars>>

\* VexDevice::open, after receive_extended has returned the response
OpenParse ==
    /\ pc = "open_response"
    /\ openMeta.status = "None"
    /\ openMeta' = DeserializeOpen(openData)
    /\ UNCHANGED <<openData, initResponse>>
    /\ UNCHANGED <<baseVars, kvVars, rejectVars, lateVars>>

NextOpenResponse == DecodeInit \/ OpenParse

SpecOpenResponse == InitOpenResponse /\ [][NextOpenResponse]_vars

(***************************************************************************)
(* KVWrite::encode_request (commands/kv.rs): the payload handed to the     *)
(* extended encoder.  Keys and values are the bytes of the two strings.    *)
(***************************************************************************)
MaxSmallValue == 18

\* kv.rs:101, kv.rs:103, kv.rs:105
TeamNumberCap == 7
RobotNameCap == 16
DefaultCap == 254

\* kv.rs:123
KVWriteId == 47

\* "teamnumber"
TeamNumberKey == <<116, 101, 97, 109, 110, 117, 109, 98, 101, 114>>

\* "robotname"
RobotNameKey == <<114, 111, 98, 111, 116, 110, 97, 109, 101>>

\* the keys of the model: the two capped keys, "", "x", "Teamnumber",
\* "robotnam"
KVKeys ==
    {TeamNumberKey, RobotNameKey, <<>>, <<120>>,
     <<84, 101, 97, 109, 110, 117, 109, 98, 101, 114>>,
     <<114, 111, 98, 111, 116, 110, 97, 109>>}

\* the value lengths of the model: short ones, and those around 254
KVValueLens == (0..MaxSmallValue) \cup ((DefaultCap - 1)..(DefaultCap + 2))

\* kv.rs:100-109 with every key given the default cap
KVCapDefault(key) == DefaultCap

\* kv.rs:100-109, the maximum size of the value for a key
KVCap(key) ==
    IF key = TeamNumberKey THEN TeamNumberCap
    ELSE IF key = RobotNameKey THEN RobotNameCap
    ELSE DefaultCap

\* kv.rs:99-109, packet_length
KVPacketLength(key, value) ==
    IF Len(value) < KVCap(key) THEN Len(value) ELSE KVCap(key)

\* kv.rs:112-121
KVWriteEncode(key, value) ==
    [id |-> KVWriteId,
     payload |-> (key \o <<0>>)
                 \o (SubSeq(value, 1, KVPacketLength(key, value)) \o <<0>>)]

InitKV ==
    /\ kvKey \in KVKeys
    /\ \E n \in KVValueLens : kvValue = DataOf(n)
    /\ kvPayload = [id |-> 0, payload |-> <<>>]
    /\ pc = "kv"
    /\ stream = <<>>
    /\ mode = "extended"
    /\ checks = VexExtPacketChecks
    /\ wellFormed = FALSE
    /\ silence = "eof"
    /\ DecoderInit
    /\ NoEncoder
    /\ NoLength
    /\ NoAck
    /\ NoCommand
    /\ NoSession
    /\ NoPad
    /\ NoTransfer
    /\ NoOpen
    /\ NoReject
    /\ NoLate

\* KVWrite(key, value).encode_request(), up to the extended wrapping
EncodeKVWrite ==
    /\ pc = "kv"
    /\ kvPayload' = KVWriteEncode(kvKey, kvValue)
    /\ pc' = "kv_done"
    /\ UNCHANGED <<kvKey, kvValue>>
    /\ UNCHANGED <<pos, expired, header_index, command, lenByte, length, payload,
                   packet, result>>
    /\ UNCHANGED <<inputVars, encoderVars, lengthVars, ackVars, commandVars,
                   sessionVars, padVars, transferVars, openVars, rejectVars,
                   lateVars>>

NextKV == EncodeKVWrite

SpecKV == InitKV /\ [][NextKV]_vars

(***************************************************************************)
(* What an operation does before its first write: the file name is         *)
(* converted with as_ascii_str (VexDevice::open, execute_program_file,     *)
(* file_metadata_from_name, delete_file) or the command is encoded         *)
(* (Device::send_command, devices/genericv5/device.rs).                    *)
(***************************************************************************)
MaxName == 3

\* the characters of the file names in the model: 'A' and U+00E9
NameChars == {65, 233}

FileNames == UNION {[1..n -> NameChars] : n \in 0..MaxName}

\* the operations that take a file name
NamedOps == {"open", "execute_program_file", "file_metadata_from_name", "delete_file"}

\* as_ascii_str accepting every name
AsAsciiStrLossy(name) == TRUE

\* String::as_ascii_str: Ok iff every character is ASCII
AsAsciiStr(name) == \A k \in 1..Len(name) : name[k] < 128

\* the length of the payload each operation serializes (vexdevice.rs:227-242,
\* 170-171, 333, 433)
NamedPayloadLen(op) == IF op = "open" THEN 4 + 4 + 4 + 4 + 4 + 4 + 4 + 24 ELSE 1 + 1 + 24

InitReject ==
    /\ \/ opName \in NamedOps /\ fileName \in FileNames /\ encodeOk = TRUE
       \/ opName = "send_command" /\ fileName = <<>> /\ encodeOk \in BOOLEAN
    /\ written = 0
    /\ opResult = "None"
    /\ pc = "reject_start"
    /\ stream = <<>>
    /\ mode = "extended"
    /\ checks = VexExtPacketChecks
    /\ wellFormed = FALSE
    /\ silence = "eof"
    /\ DecoderInit
    /\ NoEncoder
    /\ NoLength
    /\ NoAck
    /\ NoCommand
    /\ NoSession
    /\ NoPad
    /\ NoTransfer
    /\ NoOpen
    /\ NoKV
    /\ NoLate

\* the operation up to its first write: `file_name.as_ascii_str()?`
\* (vexdevice.rs:192, 161, 323, 427), `command.encode_request()?`
\* (device.rs:55)
EncodeOrReject ==
    /\ pc = "reject_start"
    /\ LET accepted == IF opName = "send_command" THEN encodeOk ELSE AsAsciiStr(fileName)
       IN  IF accepted
           THEN pc' = "reject_send" /\ UNCHANGED opResult
           ELSE pc' = "reject_done" /\ opResult' = "Err"
    /\ UNCHANGED <<opName, fileName, encodeOk, written>>
    /\ UNCHANGED <<pos, expired, header_index, command, lenByte, length, payload,
                   packet, result>>
    /\ UNCHANGED <<inputVars, encoderVars, lengthVars, ackVars, commandVars,
                   sessionVars, padVars, transferVars, openVars, kvVars,
                   lateVars>>

\* the first write of the operation: send_extended's write_all
\* (protocol/v5.rs:239), send_command's write_all (device.rs:69)
FirstWrite ==
    /\ pc = "reject_send"
    /\ written' = IF opName = "send_command"
                  THEN 4 + 1
                  ELSE CreateExtendedPacketLen(NamedPayloadLen(opName))
    /\ opResult' = "Sent"
    /\ pc' = "reject_done"
    /\ UNCHANGED <<opName, fileName, encodeOk>>
    /\ UNCHANGED <<pos, expired, header_index, command, lenByte, length, payload,
                   packet, result>>
    /\ UNCHANGED <<inputVars, encoderVars, lengthVars, ackVars, commandVars,
                   sessionVars, padVars, transferVars, openVars, kvVars,
                   lateVars>>

NextReject == EncodeOrReject \/ FirstWrite

SpecReject == InitReject /\ [][NextReject]_vars

\* the payload is too short for the checks of the mask: empty, no byte at the
\* ACK position when the ACK check is on, or fewer than 2 bytes after the id
\* and the status byte (no room for the trailer)
TooShortForChecks ==
    \/ Len(payload) = 0
    \/ "ACK" \in checks /\ Len(payload) < 2
    \/ Len(payload) < 4

\* the checks of decode_extended that come after the CRC check have run
LengthChecksReached ==
    /\ pc = "done" /\ mode = "extended"
    /\ command = 86
    /\ result.status \notin {"IoError", "HeaderTimeout", "CrcError"}
    /\ ("ACK" \in checks /\ Len(payload) >= 2) => payload[2] = 118

\* C11: under every check mask, a payload too short for the enabled checks
\* makes the extended decode return PacketLengthError, and the decode never
\* panics (no index underflow, no index past the received length).
C11_ShortPayload ==
    /\ (pc = "done" /\ mode = "extended") => result.status # "Panic"
    /\ (LengthChecksReached /\ TooShortForChecks) =>
            result = ErrResult("PacketLengthError")

\* C12: for each concrete extended command, a response whose ext_command_id
\* differs from the id the command sends gives ExpectedCommand(expected,
\* actual) with expected = the command's own id and actual = the received
\* id; a response with the matching id never gives ExpectedCommand.
C12_ExpectedCommand ==
    pc = "command_done" =>
        /\ rxId # CommandIds[cmdName].sends =>
                cmdResult = ExpectedCommand(CommandIds[cmdName].sends, rxId)
        /\ rxId = CommandIds[cmdName].sends => cmdResult.status # "ExpectedCommand"

\* C13: on a stream that never produces AA 55, whether it keeps delivering
\* other bytes or delivers nothing, the simple-packet decode ends with
\* HeaderTimeout: it reports no other error, and it does not sit in a read
\* that outlasts the deadline.
C13_HeaderTimeout ==
    NoSync(stream) =>
        /\ pc = "done" => result = ErrResult("HeaderTimeout")
        /\ pc # "blocked"

\* where the current file-transfer session starts in the log: the last
\* acknowledged OpenFile, 0 when there is none
SessionStart ==
    IF \E i \in 1..Len(log) : log[i].cmd = "OpenFile" /\ log[i].ev = "read" /\ log[i].ok
    THEN CHOOSE i \in 1..Len(log) :
            /\ log[i].cmd = "OpenFile" /\ log[i].ev = "read" /\ log[i].ok
            /\ \A j \in (i + 1)..Len(log) :
                    ~(log[j].cmd = "OpenFile" /\ log[j].ev = "read" /\ log[j].ok)
    ELSE 0

\* the ExitFile requests written to the stream in the current session
ExitWrites ==
    {i \in (SessionStart + 1)..Len(log) :
        log[i].ev = "write" /\ log[i].cmd = "ExitFile" /\ log[i].ok}

\* no write or flush of an ExitFile request has failed in the current session
ExitSendsOk ==
    \A i \in (SessionStart + 1)..Len(log) :
        (log[i].cmd = "ExitFile" /\ log[i].ev \in {"write", "flush"}) => log[i].ok

\* C14: over the operations on one opened file-transfer session (transfers,
\* at most one explicit close, which may fail, then the drop of the handle)
\* the ExitFile request is written to the stream exactly once: never twice,
\* and once by the time the handle is dropped, unless the stream refused it.
C14_ExitOnce ==
    (SessionStart > 0 /\ closeCalls <= 1 /\ hpc # "panicked") =>
        /\ Cardinality(ExitWrites) <= 1
        /\ (handle = "dropped" /\ hpc = "idle" /\ ExitSendsOk) =>
                Cardinality(ExitWrites) = 1

\* the I/O calls made since Drop started
DropLog == SubSeq(log, dropMark + 1, Len(log))

\* Drop has run to its end
DropDone == lastOp = "drop" /\ hpc = "idle"

\* C15: a handle dropped with closed = false sends one ExitFile request with
\* the DoNothing action (byte 0), reads its reply when the request went out,
\* and drops whatever error that close returns; a handle dropped with
\* closed = true writes nothing to the stream.
C15_DropCloses ==
    /\ (Len(stack) > 0 /\ stack[1] = "drop") => hpc # "panicked"
    /\ DropDone =>
        /\ ret = "Ok"
        /\ handle = "dropped"
        /\ dropSaw => DropLog = <<>>
        /\ ~dropSaw =>
            /\ Len(DropLog) >= 1
            /\ DropLog[1] = [ev |-> "write", cmd |-> "ExitFile",
                             arg |-> VexFiletransferFinished.DoNothing,
                             ok |-> DropLog[1].ok, by |-> "drop"]
            /\ \A i \in 1..Len(DropLog) :
                    /\ DropLog[i].cmd = "ExitFile" /\ DropLog[i].arg = 0
                    /\ i > 1 => DropLog[i].ev # "write"
            /\ (Len(DropLog) >= 2 /\ DropLog[1].ok /\ DropLog[2].ok) =>
                    /\ Len(DropLog) = 3
                    /\ DropLog[2].ev = "flush"
                    /\ DropLog[3].ev = "read"

\* a drop whose automatic close failed at the receive has ended quietly
C15_Witness ==
    /\ DropDone /\ ~dropSaw
    /\ Len(DropLog) = 3 /\ ~DropLog[3].ok
    /\ ret = "Ok"

\* C16: once the device has acknowledged the OpenFile request of an open, an
\* ExitFile request is sent afterwards on every path, the paths on which
\* open itself returns Err included (response not parsed, SetLinkedFilename
\* failed): when open has returned Err after the acknowledgement, the
\* ExitFile request has been written and the device holds no transfer.
C16_Release ==
    (/\ lastOp = "open" /\ hpc = "idle" /\ ret = "Err"
     /\ SessionStart > 0
     /\ \A i \in (SessionStart + 1)..Len(log) : log[i].by = "open") =>
        /\ ExitWrites # {}
        /\ ~devSlot

\* C17 as stated: request writes and response reads strictly alternate: a
\* request is written only after the decode of the previous request's
\* response has returned, a flush follows each write, the read follows it.
C17_StrictAlternation ==
    \A i \in 1..Len(log) :
        /\ log[i].ev = "write" => (i = 1 \/ log[i - 1].ev = "read")
        /\ log[i].ev = "flush" => (i > 1 /\ log[i - 1].ev = "write" /\ log[i - 1].cmd = log[i].cmd)
        /\ log[i].ev = "read" => (i > 1 /\ log[i - 1].ev = "flush" /\ log[i - 1].cmd = log[i].cmd)

\* C17, amended: one request in flight.  A request that went out (write and
\* flush Ok) is followed by the read of its response before anything else is
\* written; every read follows the flushed write of its own request; a new
\* request is written at the start, after a read, or after a send that
\* failed (the call then returns Err without reading).
C17_OneInFlight ==
    \A i \in 1..Len(log) :
        /\ log[i].ev = "write" =>
                (i = 1 \/ log[i - 1].ev = "read" \/ ~log[i - 1].ok)
        /\ log[i].ev = "flush" =>
                /\ i > 1
                /\ log[i - 1] = [log[i] EXCEPT !.ev = "write", !.ok = TRUE]
        /\ log[i].ev = "read" =>
                /\ i > 1
                /\ log[i - 1] = [log[i] EXCEPT !.ev = "flush", !.ok = TRUE]
        /\ (log[i].ev = "flush" /\ log[i].ok /\ i < Len(log)) => log[i + 1].ev = "read"
        /\ (log[i].ev = "write" /\ log[i].ok /\ i < Len(log)) => log[i + 1].ev = "flush"

\* a failed flush, then two complete exchanges
C17_Witness ==
    /\ Len(log) = 8
    /\ log[2].ev = "flush" /\ ~log[2].ok
    /\ log[5].ev = "read"
    /\ log[6].ev = "write" /\ log[8].ev = "read"

\* C18: at most one mutable borrow of the shared protocol is live: no
\* operation reaches a borrow_mut while a RefMut taken earlier in the same
\* call chain is still held, and no operation ends in the already-borrowed
\* panic.
C18_SingleBorrow ==
    /\ (hpc = "enter" /\ ScopedBorrow(Top)) => ~BorrowFails
    /\ ret # "PanicBorrow"

\* delete_file is over: returned or panicked
DeleteFileOver == lastOp = "delete_file" /\ hpc \in {"idle", "panicked"}

\* C19: delete_file writes the DeleteFile request, reads its response, then
\* writes an ExitFile request with DoNothing and reads that response; once
\* the DeleteFile response has been read Ok the ExitFile request is written
\* next, and Ok is returned only after both exchanges succeeded.
C19_DeleteThenExit ==
    DeleteFileOver =>
        /\ \A i \in 1..Len(log) :
                (log[i].cmd = "DeleteFile" /\ log[i].ev = "read" /\ log[i].ok) =>
                    /\ i < Len(log)
                    /\ log[i + 1].ev = "write"
                    /\ log[i + 1].cmd = "ExitFile"
                    /\ log[i + 1].arg = VexFiletransferFinished.DoNothing
        /\ ret = "Ok" =>
                /\ Len(log) >= 6
                /\ \A k \in 0..5 : log[Len(log) - k].ok /\ log[Len(log) - k].by = "delete_file"
                /\ log[Len(log) - 3].cmd = "DeleteFile" /\ log[Len(log) - 3].ev = "read"
                /\ log[Len(log)].cmd = "ExitFile" /\ log[Len(log)].ev = "read"

\* the padded count c is the one the request must carry for n_bytes
PaddedFor(c, n) ==
    /\ c.status = "Ok"
    /\ c.value % 4 = 0
    /\ c.value >= n
    /\ c.value < n + 4

\* C20: for every n_bytes in 0..65535 the byte count a file read request
\* puts on the wire is a multiple of 4, is >= n_bytes and < n_bytes + 4, and
\* its computation neither panics nor wraps.
C20_ReadPadding ==
    /\ nbytes.status # "None" => PaddedFor(nbytes, n_bytes)
    /\ n_bytes_pad.status # "None" => PaddedFor(n_bytes_pad, n_bytes)

\* p is the write payload for data d at address a: the address in 4
\* little-endian bytes, d unchanged, then as few zero bytes as bring the data
\* length to a multiple of 4
PaddedWrite(p, a, d) ==
    /\ Len(p) >= 4
    /\ \A k \in 1..4 : p[k] = (a \div (256 ^ (k - 1))) % 256
    /\ (Len(p) - 4) % 4 = 0
    /\ Len(p) - 4 >= Len(d)
    /\ Len(p) - 4 < Len(d) + 4
    /\ \A k \in 1..Len(d) : p[4 + k] = d[k]
    /\ \A k \in (Len(d) + 1)..(Len(p) - 4) : p[4 + k] = 0

\* the slice of write_all's data that request r carries
ChunkOf(r) == SubSeq(wdata, r.addr - addr + 1, r.addr - addr + r.n)

\* C21: the payload of a file write request is the 4-byte little-endian
\* address, the original data bytes unchanged, then 0 to 3 zero bytes, the
\* transmitted data length being the smallest multiple of 4 >= the original
\* length (aligned data gets no padding, empty data stays empty); for
\* write_some and for FileTransferWrite::encode_request.
C21_WritePadding ==
    /\ (requests # <<>> /\ requests[Len(requests)].cmd = "WriteFile") =>
            LET r == requests[Len(requests)]
            IN  PaddedWrite(r.payload, r.addr, ChunkOf(r))
    /\ encodedWrite # <<>> => PaddedWrite(encodedWrite, addr, wdata)

\* a 6-byte chunk went out padded and a 48-byte slice was encoded unpadded
C21_Witness ==
    /\ requests # <<>>
    /\ requests[1].cmd = "WriteFile"
    /\ requests[1].n = SmallFile
    /\ Len(requests[1].payload) > 4 + SmallFile
    /\ Len(wdata) = 48
    /\ Len(encodedWrite) = 4 + 48

\* the read requests sent so far, in order
ReadRequests == SelectSeq(requests, LAMBDA r : r.cmd = "ReadFile")

\* x / y rounded up
CeilDiv(x, y) == (x + y - 1) \div y

WriteRequests == SelectSeq(requests, LAMBDA r : r.cmd = "WriteFile")

\* the chunks of write_all as C23 describes them, while the loop runs and
\* after it
ChunksInOrder ==
    \A k \in 1..Len(WriteRequests) :
        LET r == WriteRequests[k]
            at == MaxSize * (k - 1)
        IN  /\ r.addr = addr + at
            /\ at < Size
            /\ r.n = IF at + MaxSize > Size THEN Size - at ELSE MaxSize
            /\ SubSeq(r.payload, 5, 4 + r.n) = SubSeq(wdata, at + 1, at + r.n)

\* C23: write_all(data) writes size = min(file_size, data.len()) bytes in
\* consecutive slices data[i .. i+n], i = 0, step, 2*step, ..., with step =
\* max_packet_size/2 + max_packet_size/4, each sent to metadata.addr + i in
\* increasing order; every chunk but the last has step bytes, the lengths
\* sum to size, nothing beyond size is sent, and it returns size.
C23_WriteAll ==
    /\ tpc \in {"write_loop", "written"} => ChunksInOrder
    /\ tpc = "written" =>
            /\ tret = PadOk(Size)
            /\ how_much = Size
            /\ Len(WriteRequests) * MaxSize >= Size
    /\ tret.status # "PanicStepBy"

\* C24: for every negotiated max_packet_size and every data length, a write
\* request of write_all as transmitted (packet envelope, 4-byte address,
\* chunk padded to a multiple of 4) is at most max_packet_size bytes.
C24_WriteFits ==
    \A k \in 1..Len(requests) :
        requests[k].cmd = "WriteFile" => requests[k].wire <= max_packet_size

OpenTriple(d) ==
    [status |-> "Ok",
     max_packet_size |-> d[1] + 256 * d[2],
     file_size |-> d[3] + 256 * d[4] + 65536 * d[5] + 16777216 * d[6],
     crc |-> d[7] + 256 * d[8] + 65536 * d[9] + 16777216 * d[10]]

\* r is the decode the claim asks for on data d
DecodedAsTriple(r, d) ==
    IF Len(d) < 10 THEN r.status \notin {"Ok", "None"} ELSE r = OpenTriple(d)

\* C26: the file-open response data is decoded as max_packet_size: u16
\* (bytes 0..2), file_size: u32 (bytes 2..6), crc: u32 (bytes 6..10),
\* little-endian; a shorter response gives an error; the decoded triple is
\* the metadata of the session.  For FileTransferInit::decode_response and
\* for VexDevice::open.
C26_OpenTriple ==
    /\ initResponse.status # "None" => DecodedAsTriple(initResponse, openData)
    /\ openMeta.status # "None" => DecodedAsTriple(openMeta, openData)

\* the cap C27 gives a key
ClaimedCap(key) ==
    IF key = <<116, 101, 97, 109, 110, 117, 109, 98, 101, 114>> THEN 7
    ELSE IF key = <<114, 111, 98, 111, 116, 110, 97, 109, 101>> THEN 16
    ELSE 254

\* C27: KVWrite encodes key ++ 0x00 ++ value[0 .. min(len(value), cap)] ++
\* 0x00 under extended command 0x2F, cap being 7 for "teamnumber", 16 for
\* "robotname" and 254 for every other key; a value no longer than its cap
\* is sent whole, and one NUL ends the value.
C27_KVTruncation ==
    pc = "kv_done" =>
        LET cap == ClaimedCap(kvKey)
            kept == IF Len(kvValue) <= cap THEN Len(kvValue) ELSE cap
            p == kvPayload.payload
        IN  /\ kvPayload.id = 47
            /\ Len(p) = Len(kvKey) + 1 + kept + 1
            /\ \A k \in 1..Len(kvKey) : p[k] = kvKey[k]
            /\ p[Len(kvKey) + 1] = 0
            /\ \A k \in 1..kept : p[Len(kvKey) + 1 + k] = kvValue[k]
            /\ p[Len(p)] = 0

\* a teamnumber value of more than 7 bytes has been cut to 7
C27_Witness ==
    /\ pc = "kv_done"
    /\ kvKey = TeamNumberKey
    /\ Len(kvValue) > TeamNumberCap
    /\ Len(kvPayload.payload) = Len(TeamNumberKey) + 1 + TeamNumberCap + 1

\* the input is one the encoder must refuse: a file name with a non-ASCII
\* character, or a command whose encode_request returns Err
BadInput ==
    \/ opName \in NamedOps /\ \E k \in 1..Len(fileName) : fileName[k] > 127
    \/ opName = "send_command" /\ ~encodeOk

\* C28: if the file name given to open, execute_program_file,
\* file_metadata_from_name or delete_file is not ASCII, or a command's
\* encode_request returns Err in send_command, the operation returns an
\* error and not one byte has been written to the stream.
C28_RejectedUnsent ==
    (BadInput /\ opName # "None") =>
        /\ written = 0
        /\ pc # "reject_send"
        /\ pc = "reject_done" => opResult = "Err"

\* delete_file has refused a name with a non-ASCII character in the middle
C28_Witness ==
    /\ pc = "reject_done"
    /\ opName = "delete_file"
    /\ fileName = <<65, 233, 65>>
    /\ opResult = "Err"
    /\ written = 0

\* the simple packet has been decoded and the extended checks have run
ChecksRan ==
    /\ pc = "done"
    /\ mode = "extended"
    /\ result.status \notin {"IoError", "HeaderTimeout"}

\* the status byte is one of the documented ones (0x76, 0xCE, 0xD0..0xDB)
KnownAck(b) == b = 118 \/ b = 206 \/ b \in 208..219

AfterSync == pc \in {"cmdlen", "lenlow", "payload"}

ReadWanted ==
    CASE pc = "cmdlen" -> 2
      [] pc = "lenlow" -> 1
      [] pc = "payload" -> length
      [] OTHER -> 0

C30_DeadlineOnlyInScan ==
    [][/\ (result'.status = "HeaderTimeout" /\ result.status # "HeaderTimeout")
           => (pc = "scan" /\ header_index < Len(expected_header) /\ expired
               /\ pos' = pos)
       /\ (pc = "scan" /\ expired)
           => (result'.status = "HeaderTimeout" /\ pos' = pos)
       /\ (AfterSync /\ expired)
           => /\ result'.status # "HeaderTimeout"
              /\ pos + ReadWanted <= Len(stream) => pos' = pos + ReadWanted]_vars

\* a whole packet decoded although the deadline passed before its last read
C30_Witness ==
    /\ mode = "simple"
    /\ pc = "done"
    /\ expired
    /\ result.status = "Ok"
    /\ Len(payload) > 0

(***************************************************************************)
(* Packets back to back: the device sends several packets one after the    *)
(* other and the host calls the decoder once per packet on the same        *)
(* stream.                                                                 *)
(***************************************************************************)
\* how many packets the device sends
MaxPackets == 2

\* packets whose length field counts their payload: acknowledged, refused,
\* with an unknown status byte, with a bad CRC, with an empty payload, a
\* simple packet whose payload is the sync itself, and one with a two-byte
\* length above 255
PairPackets ==
    {Frame(<<1, 118>> \o Ramp(104, 1)), Frame(<<1, 206, 0>>), Frame(<<1, 0, 0>>),
     Corrupt(Frame(<<1, 118, 104>>)), <<170, 85, 86, 0>>,
     <<170, 85, 33, 2, 170, 85>>, WideFrame(<<1, 118>> \o Ramp(7, 254))}

RECURSIVE Concat(_)
Concat(ss) == IF ss = <<>> THEN <<>> ELSE Head(ss) \o Concat(Tail(ss))

InitPair ==
    /\ packets \in [1..MaxPackets -> PairPackets]
    /\ returned = <<>>
    /\ stream = Concat(packets)
    /\ wellFormed = FALSE
    /\ \/ mode = "simple" /\ checks = {}
       \/ mode = "extended" /\ checks \in SUBSET VexExtPacketChecks
    /\ pc = "scan"
    /\ DecoderInit
    /\ NoEncoder
    /\ NoLength
    /\ NoAck
    /\ silence = "eof"
    /\ NoCommand
    /\ NoSession
    /\ NoPad
    /\ NoTransfer
    /\ NoOpen
    /\ NoKV
    /\ NoReject
    /\ NoRead
    /\ NoKVRead
    /\ NoVersion
    /\ NoSerial
    /\ NoChannel

\* the outcomes after which the caller reads on: Ok and the errors found in
\* a packet that was read whole
FramedOutcomes ==
    {"Ok", "ExpectedExtended", "CrcError", "PacketLengthError", "InvalidAck", "NACK"}

\* simple.rs:32-45, the next call of the decoder on the same stream: a new
\* countdown, header_index = 0, nothing kept from the call before
DecodeNext ==
    /\ pc = "done"
    /\ result.status \in FramedOutcomes
    /\ Len(returned) + 1 < Len(packets)
    /\ returned' = Append(returned, [result |-> result, packet |-> packet, end |-> pos])
    /\ pc' = "scan"
    /\ expired' = FALSE
    /\ header_index' = 0
    /\ command' = 0
    /\ lenByte' = 0
    /\ length' = 0
    /\ payload' = <<>>
    /\ packet' = <<>>
    /\ result' = NoResult
    /\ UNCHANGED <<pos, packets>>
    /\ UNCHANGED <<inputVars, encoderVars, lengthVars, ackVars, commandVars,
                   sessionVars, padVars, transferVars, openVars, kvVars, rejectVars,
                   readVars, kvReadVars, versionVars, serialVars,
                   channelVars>>

NextPair ==
    \/ Tick
    \/ ScanStep
    \/ ReadCommandLength
    \/ ReadLengthLow
    \/ ReadPayload
    \/ ExtendedChecks
    \/ DecodeNext

SpecPair == InitPair /\ [][NextPair]_vars

\* C31: when a decode ends Ok or with an error found in a packet read whole,
\* the bytes consumed by this call are exactly the packet the device sent
\* (2 sync bytes, command, 1 or 2 length bytes, `length` payload bytes), the
\* stream position is the first byte after that packet, and the k-th call
\* gets the k-th packet.
PacketEnd(k) == Len(Concat(SubSeq(packets, 1, k)))

C31_PacketBoundary ==
    LET k == Len(returned) + 1
    IN (pc = "done" /\ result.status \in FramedOutcomes) =>
          /\ packet = packets[k]
          /\ pos = PacketEnd(k)
          /\ Len(packet) = 2 + 1 + (IF HasLengthLow(command, lenByte) THEN 2 ELSE 1)
                             + length
          /\ Len(payload) = length
          /\ \A j \in 1..(k - 1) :
                returned[j].packet = packets[j] /\ returned[j].end = PacketEnd(j)
          /\ mode = "simple" => result = OkResult(packet[3], payload)

\* the second packet decoded Ok after the first was read whole and refused
C31_Witness ==
    /\ Len(returned) = 1
    /\ returned[1].result.status = "CrcError"
    /\ pc = "done"
    /\ result.status = "Ok"
    /\ pos = Len(stream)

(***************************************************************************)
(* V5FileHandle::read_len (device/handle.rs) on the response that          *)
(* V5Protocol::receive_extended (protocol/v5.rs) hands it.                 *)
(***************************************************************************)
\* the largest small byte count a caller asks for
MaxRead == 5

\* protocol/mod.rs:33-49, the bytes num::FromPrimitive maps to a command
KnownCommands == (16..27) \cup {39, 86, 164}

\* protocol/v5.rs:183-229, receive_extended on the simple packet
\* (cmd, pl, pkt) = (data.0, data.1, data.2): the set of outcomes.  data.1[0],
\* message[0] and &message[1..message.len()-2] are unchecked indexings.
ReceiveExtended(cmd, pl, pkt, chk) ==
    IF cmd # ExtendedCommand THEN {ErrResult("Err")}
    ELSE IF "CRC" \in chk /\ Crc16(pkt) # 0 THEN {ErrResult("Err")}
    ELSE IF Len(pl) = 0 THEN {ErrResult("Panic")}
    ELSE IF pl[1] \notin KnownCommands THEN {ErrResult("Err")}
    ELSE LET message == Tail(pl)
         IN IF "ACK" \in chk /\ Len(message) = 0 THEN {ErrResult("Panic")}
            ELSE IF "ACK" \in chk /\ from_u8ByDiscriminant(message[1]) # "ACK"
            THEN {ErrResult("Err")}
            ELSE IF Len(message) < 3 THEN {ErrResult("Panic")}
            ELSE {OkResult(pl[1], SubSeq(message, 2, Len(message) - 2))}

\* read_len returning the padded count of bytes
ReadLenDataPadded(r, n) ==
    IF 3 + AndNot3(n + 3) > Len(r)
    THEN [status |-> "Panic", data |-> <<>>]
    ELSE [status |-> "Ok", data |-> SubSeq(r, 4, 3 + AndNot3(n + 3))]

\* handle.rs:60-62, response.1[offset..offset + n_bytes as usize] with
\* offset = 3; a range that ends past the vector panics
ReadLenData(r, n) ==
    IF 3 + n > Len(r)
    THEN [status |-> "Panic", data |-> <<>>]
    ELSE [status |-> "Ok", data |-> SubSeq(r, 4, 3 + n)]

ReadCounts == (0..MaxRead) \cup {U16Max}

\* what stands between the command id and the data in a response
ReadLeads == {<<118, 0, 0, 56>>, <<208, 1, 2, 3>>}

\* the device's answers: data of any length behind either lead, and answers
\* too short to hold a lead, with a bad CRC, with an unknown command id, or
\* not extended at all
ReadStreams ==
    {Frame(<<20>> \o lead \o Ramp(200, dl)) : lead \in ReadLeads, dl \in 0..(MaxRead + 3)}
    \cup {Corrupt(Frame(<<20, 118, 0, 0, 56, 200, 203, 206, 209>>)),
          <<170, 85, 86, 0>>, Frame(<<>>), Frame(<<20>>), Frame(<<20, 208>>),
          Frame(<<20, 118, 0>>), Frame(<<99, 118, 0, 0, 56, 200>>),
          <<170, 85, 33, 2, 1, 2>>}

InitReadLen ==
    /\ n_bytes \in ReadCounts
    /\ nbytes = PadNone
    /\ n_bytes_pad = PadNone
    /\ stream \in ReadStreams
    /\ mode = "extended"
    /\ checks = {"CRC"}
    /\ wellFormed = FALSE
    /\ silence = "eof"
    /\ pc = "readlen"
    /\ pos = Len(stream)
    /\ expired = FALSE
    /\ header_index = Len(expected_header)
    /\ command = stream[3]
    /\ lenByte = stream[4]
    /\ length = stream[4]
    /\ payload = SubSeq(stream, 5, Len(stream))
    /\ packet = stream
    /\ result = NoResult
    /\ NoEncoder
    /\ NoLength
    /\ NoAck
    /\ NoCommand
    /\ NoSession
    /\ NoTransfer
    /\ NoOpen
    /\ NoKV
    /\ NoReject
    /\ NoPair
    /\ NoRead
    /\ NoKVRead
    /\ NoVersion
    /\ NoSerial
    /\ NoChannel

\* handle.rs:47-54, the padded count and the request
ReadLenSend ==
    /\ pc = "readlen"
    /\ n_bytes_pad' \in ReadLenPad(n_bytes)
    /\ IF n_bytes_pad'.status = "Panic"
       THEN readLenRet' = [status |-> "Panic", data |-> <<>>] /\ pc' = "readlen_done"
       ELSE UNCHANGED readLenRet /\ pc' = "readlen_recv"
    /\ UNCHANGED <<n_bytes, nbytes, pos, expired, header_index, command, lenByte,
                   length, payload, packet, result>>
    /\ UNCHANGED <<inputVars, encoderVars, lengthVars, ackVars, commandVars,
                   sessionVars, transferVars, openVars, kvVars, rejectVars, pairVars,
                   kvReadVars, versionVars, serialVars,
                   channelVars>>

\* handle.rs:57-64, the response received with the CRC check only, and cut
ReadLenReceive ==
    /\ pc = "readlen_recv"
    /\ result' \in ReceiveExtended(command, payload, packet, checks)
    /\ readLenRet' = IF result'.status = "Ok"
                     THEN ReadLenData(result'.data, n_bytes)
                     ELSE [status |-> result'.status, data |-> <<>>]
    /\ pc' = "readlen_done"
    /\ UNCHANGED <<padVars, pos, expired, header_index, command, lenByte,
                   length, payload, packet>>
    /\ UNCHANGED <<inputVars, encoderVars, lengthVars, ackVars, commandVars,
                   sessionVars, transferVars, openVars, kvVars, rejectVars, pairVars,
                   kvReadVars, versionVars, serialVars,
                   channelVars>>

NextReadLen == ReadLenSend \/ ReadLenReceive

SpecReadLen == InitReadLen /\ [][NextReadLen]_vars

\* C32: whenever read_len returns Ok it returns exactly n_bytes bytes, the
\* caller's count and not the padded one; they are the bytes of the simple
\* packet's payload that follow the ext-command byte and 4 more bytes; and
\* the 2 CRC bytes at the end of the payload are not among them.
C32_ReadLen ==
    (pc = "readlen_done" /\ readLenRet.status = "Ok") =>
        /\ Len(readLenRet.data) = n_bytes
        /\ readLenRet.data = SubSeq(payload, 1 + 4 + 1, 1 + 4 + n_bytes)
        /\ 1 + 4 + n_bytes <= Len(payload) - 2

\* 3 bytes asked for, 4 on the wire, 3 returned
C32_Witness ==
    /\ pc = "readlen_done"
    /\ readLenRet.status = "Ok"
    /\ n_bytes = 3
    /\ n_bytes_pad = PadOk(4)
    /\ Len(payload) = 1 + 4 + 4 + 2
    /\ readLenRet.data = Ramp(200, 3)

(***************************************************************************)
(* KVRead::decode_stream (commands/kv.rs): the extended decode with all    *)
(* checks, the id check, the strip of the terminator, the UTF-8 check.     *)
(***************************************************************************)
\* the longest value the device answers with
MaxValue == 3

\* kv.rs:39, kv.rs:49
KVReadId == 46

\* NUL, 'h', and a byte that no UTF-8 text contains
KVReadBytes == {0, 104, 255}

KVReadValues == UNION {[1..n -> KVReadBytes] : n \in 0..MaxValue}

\* the device's answers: acknowledged with any value, under the id asked for
\* or another one, with a one- or two-byte length field, and one refused
KVReadStreams ==
    {Frame(<<id, 118>> \o d) : id \in {KVReadId, 1}, d \in KVReadValues}
    \cup {WideFrame(<<KVReadId, 118>> \o d) : d \in KVReadValues}
    \cup {Frame(<<KVReadId, 206>>)}

\* <[u8]>::strip_suffix(&[b]): Some(rest) when s ends with b, None otherwise
StripSuffix(s, b) ==
    IF Len(s) > 0 /\ s[Len(s)] = b
    THEN [some |-> TRUE, rest |-> SubSeq(s, 1, Len(s) - 1)]
    ELSE [some |-> FALSE, rest |-> <<>>]

\* String::from_utf8 on the bytes of the model: ASCII bytes are text, 0xFF
\* never is
FromUtf8(s) ==
    IF \A i \in 1..Len(s) : s[i] < 128
    THEN [status |-> "Ok", value |-> s]
    ELSE [status |-> "Err", value |-> <<>>]

\* kv.rs:43-57 on what Extended::decode_stream returned
KVReadDecode(res) ==
    IF res.status = "Panic" THEN [status |-> "Panic", value |-> <<>>]
    ELSE IF res.status # "Ok" THEN [status |-> "Err", value |-> <<>>]
    ELSE IF res.id # KVReadId THEN [status |-> "Err", value |-> <<>>]
    ELSE IF ~StripSuffix(res.data, 0).some THEN [status |-> "Panic", value |-> <<>>]
    ELSE FromUtf8(StripSuffix(res.data, 0).rest)

InitKVRead ==
    /\ stream \in KVReadStreams
    /\ wellFormed = TRUE
    /\ mode = "extended"
    /\ checks = VexExtPacketChecks
    /\ pc = "scan"
    /\ DecoderInit
    /\ NoEncoder
    /\ NoLength
    /\ NoAck
    /\ silence = "eof"
    /\ NoHost

\* kv.rs:48-56, after the extended decode has returned
DecodeKVRead ==
    /\ pc = "done"
    /\ kvReadRet' = KVReadDecode(result)
    /\ pc' = "kvread_done"
    /\ UNCHANGED <<pos, expired, header_index, command, lenByte, length, payload,
                   packet, result>>
    /\ UNCHANGED <<inputVars, encoderVars, lengthVars, ackVars, commandVars,
                   sessionVars, padVars, transferVars, openVars, kvVars, rejectVars,
                   pairVars, readVars, versionVars, serialVars,
                   channelVars>>

NextKVRead ==
    \/ Tick
    \/ ScanStep
    \/ ReadCommandLength
    \/ ReadLengthLow
    \/ ReadPayload
    \/ ExtendedChecks
    \/ DecodeKVRead

SpecKVRead == InitKVRead /\ [][NextKVRead]_vars

\* C33: KVRead's decode ends with Ok or Err and never panics, whatever data
\* the response holds, and an Ok value is the response data without its one
\* trailing NUL.
C33_KVReadStrip ==
    pc = "kvread_done" =>
        /\ kvReadRet.status \in {"Ok", "Err"}
        /\ kvReadRet.status = "Ok" => result.data = kvReadRet.value \o <<0>>

(***************************************************************************)
(* The system version: GetSystemVersion::decode_response                   *)
(* (commands/system.rs) and VexDevice::get_device_version                  *)
(* (device/vexdevice.rs) on the payload of the 0xA4 response.              *)
(***************************************************************************)
\* the longest version payload of the model
MaxVersionLen == 8

\* system.rs:13, system.rs:19
GetSystemVersionId == 164

\* a payload of n bytes with product byte p and flags byte f at 5 and 6
VersionPayload(n, p, f) ==
    [i \in 1..n |-> IF i = 6 THEN p ELSE IF i = 7 THEN f ELSE i]

VersionDatas ==
    {VersionPayload(n, p, f) : n \in 0..MaxVersionLen, p \in {16, 17, 18},
                               f \in {0, 1, 2, 3, 4, 255}}

VersionErr == [status |-> "Err", version |-> <<>>, product |-> "None", flags |-> 0]
VersionPanic == [status |-> "Panic", version |-> <<>>, product |-> "None", flags |-> 0]

\* V5BrainFlags::from_bits(b).unwrap_or(NONE): NONE is the only flag
BrainFlags(b) == 0

\* V5ControllerFlags::from_bits(b).unwrap_or(NONE): 0x01 and 0x02 are flags
ControllerFlags(b) == IF b < 4 THEN b ELSE 0

\* v5/meta.rs:41-47 and device/mod.rs:50-56, try_from((v[5], v[6]))
ProductTryFrom(version, p, f) ==
    CASE p = 16 -> [status |-> "Ok", version |-> version, product |-> "V5Brain",
                    flags |-> BrainFlags(f)]
      [] p = 17 -> [status |-> "Ok", version |-> version, product |-> "V5Controller",
                    flags |-> ControllerFlags(f)]
      [] OTHER -> VersionErr

\* system.rs:27-30 and vexdevice.rs:60-63: v[0] .. v[6] are plain indexings,
\* which panic on an index past the end
ParseVersion(v) ==
    IF Len(v) < 7 THEN VersionPanic
    ELSE ProductTryFrom(SubSeq(v, 1, 5), v[6], v[7])

\* system.rs:16-31
GetSystemVersionDecode(id, v) ==
    IF id # GetSystemVersionId THEN VersionErr ELSE ParseVersion(v)

InitVersion ==
    /\ verId \in {GetSystemVersionId, ExtendedCommand}
    /\ verData \in VersionDatas
    /\ verRet = NoVersionRet
    /\ devVerRet = NoVersionRet
    /\ pc = "version"
    /\ stream = <<>>
    /\ mode = "simple"
    /\ checks = {}
    /\ wellFormed = FALSE
    /\ silence = "eof"
    /\ DecoderInit
    /\ NoEncoder
    /\ NoLength
    /\ NoAck
    /\ NoCommand
    /\ NoSession
    /\ NoPad
    /\ NoTransfer
    /\ NoOpen
    /\ NoKV
    /\ NoReject
    /\ NoPair
    /\ NoRead
    /\ NoKVRead
    /\ NoSerial
    /\ NoChannel

\* GetSystemVersion::decode_response(command_id, data)
DecodeVersion ==
    /\ pc \in {"version", "version_device"}
    /\ verRet = NoVersionRet
    /\ verRet' = GetSystemVersionDecode(verId, verData)
    /\ pc' = IF pc = "version" THEN "version_decoded" ELSE "version_done"
    /\ UNCHANGED <<verId, verData, devVerRet>>
    /\ UNCHANGED <<pos, expired, header_index, command, lenByte, length, payload,
                   packet, result>>
    /\ UNCHANGED <<inputVars, encoderVars, lengthVars, ackVars, commandVars,
                   sessionVars, padVars, transferVars, openVars, kvVars, rejectVars,
                   pairVars, readVars, kvReadVars, serialVars,
                   channelVars>>

\* vexdevice.rs:57-65, get_device_version on receive_simple()?.1; the
\* command id of the response is not looked at
DeviceVersion ==
    /\ pc \in {"version", "version_decoded"}
    /\ devVerRet = NoVersionRet
    /\ devVerRet' = ParseVersion(verData)
    /\ pc' = IF pc = "version" THEN "version_device" ELSE "version_done"
    /\ UNCHANGED <<verId, verData, verRet>>
    /\ UNCHANGED <<pos, expired, header_index, command, lenByte, length, payload,
                   packet, result>>
    /\ UNCHANGED <<inputVars, encoderVars, lengthVars, ackVars, commandVars,
                   sessionVars, padVars, transferVars, openVars, kvVars, rejectVars,
                   pairVars, readVars, kvReadVars, serialVars,
                   channelVars>>

NextVersion == DecodeVersion \/ DeviceVersion

SpecVersion == InitVersion /\ [][NextVersion]_vars

\* C34: on a 0xA4 response the version decode never panics: a payload of
\* fewer than 7 bytes gives an error, one of 7 bytes or more gives the 5
\* version bytes and the product built from bytes 5 and 6, or an error for an
\* unknown product byte.
C34_VersionDecode ==
    (verRet # NoVersionRet /\ verId = GetSystemVersionId) =>
        /\ verRet.status \in {"Ok", "Err"}
        /\ Len(verData) < 7 => verRet.status = "Err"
        /\ Len(verData) >= 7 =>
              /\ verRet.status = "Ok" <=> verData[6] \in {16, 17}
              /\ verRet.status = "Ok" =>
                    /\ verRet.version = SubSeq(verData, 1, 5)
                    /\ verRet.product = (IF verData[6] = 16 THEN "V5Brain"
                                                          ELSE "V5Controller")

(***************************************************************************)
(* VexDevice::open (device/vexdevice.rs) alone: its exchanges, each I/O    *)
(* call free to fail, and the metadata it puts in the handle.  The file    *)
(* name is ASCII.                                                          *)
(***************************************************************************)
\* response data of n bytes with a, b, c in bytes 0, 3 and 7
OpenSample(n, a, b, c) ==
    [i \in 1..n |-> IF i = 1 THEN a ELSE IF i = 4 THEN b ELSE IF i = 8 THEN c ELSE 0]

OpenSamples ==
    {OpenSample(n, a, b, c) : n \in {0, MaxOpenLen - 2, MaxOpenLen - 1, MaxOpenLen},
                              a \in OpenBytes, b \in OpenBytes, c \in OpenBytes}

\* open making the second exchange in either mode
OpenExchangesBoth(m) == 2

\* vexdevice.rs:264, the exchanges open makes: SetLinkedFilename follows
\* OpenFile only for VexFileMode::Upload
OpenExchanges(m) == IF m = "Upload" THEN 2 ELSE 1

OpenEvent(ev, ok) == [ev |-> ev, cmd |-> ExchangeCommand("open", phase), ok |-> ok]

InitOpen ==
    /\ fileMode \in {"Upload", "Download"}
    /\ openData \in OpenSamples
    /\ initResponse = [status |-> "None"]
    /\ openMeta = [status |-> "None"]
    /\ pc = "open_send"
    /\ stream = <<>>
    /\ mode = "extended"
    /\ checks = VexExtPacketChecks
    /\ wellFormed = FALSE
    /\ silence = "eof"
    /\ DecoderInit
    /\ NoEncoder
    /\ NoLength
    /\ NoAck
    /\ NoCommand
    /\ stack = <<>>
    /\ hpc = "idle"
    /\ phase = 1
    /\ chunksLeft = 0
    /\ held = {}
    /\ log = <<>>
    /\ handle = "none"
    /\ closed = FALSE
    /\ devSlot = FALSE
    /\ ret = "None"
    /\ retval = "None"
    /\ lastOp = "open"
    /\ opsLeft = 0
    /\ closeCalls = 0
    /\ dropSaw = FALSE
    /\ dropMark = 0
    /\ onExit = 0
    /\ NoPad
    /\ NoTransfer
    /\ NoKV
    /\ NoReject
    /\ NoLate

openOthers == <<pos, expired, header_index, command, lenByte, length, payload, packet,
                result, inputVars, encoderVars, lengthVars, ackVars, commandVars,
                stack, hpc, chunksLeft, held, closed, devSlot, fileMode, retval,
                lastOp, opsLeft, closeCalls, dropSaw, dropMark, onExit, padVars,
                transferVars, openData, initResponse, kvVars, rejectVars, lateVars>>

\* vexdevice.rs:249 and 274, send_extended: write_all, then flush, each of
\* which may fail and make open return Err
OpenSend ==
    /\ pc = "open_send"
    /\ \/ /\ log' = Append(log, OpenEvent("write", FALSE))
          /\ ret' = "Err"
          /\ pc' = "open_done"
       \/ /\ log' = log \o <<OpenEvent("write", TRUE), OpenEvent("flush", FALSE)>>
          /\ ret' = "Err"
          /\ pc' = "open_done"
       \/ /\ log' = log \o <<OpenEvent("write", TRUE), OpenEvent("flush", TRUE)>>
          /\ pc' = "open_recv"
          /\ UNCHANGED ret
    /\ UNCHANGED <<phase, handle, openMeta, openOthers>>

\* vexdevice.rs:252 and 275, receive_extended with all checks
OpenReceive ==
    /\ pc = "open_recv"
    /\ \E ok \in BOOLEAN :
          /\ log' = Append(log, OpenEvent("read", ok))
          /\ IF ~ok THEN ret' = "Err" /\ pc' = "open_done"
             ELSE /\ UNCHANGED ret
                  /\ pc' = IF phase = 1 THEN "open_parse" ELSE "open_build"
    /\ UNCHANGED <<phase, handle, openMeta, openOthers>>

\* vexdevice.rs:255-277: the response deserialized, then the second exchange
\* when there is one
OpenDeserialize ==
    /\ pc = "open_parse"
    /\ openMeta' = DeserializeOpen(openData)
    /\ IF openMeta'.status # "Ok"
       THEN ret' = "Err" /\ pc' = "open_done" /\ UNCHANGED phase
       ELSE IF phase < OpenExchanges(fileMode)
       THEN phase' = phase + 1 /\ pc' = "open_send" /\ UNCHANGED ret
       ELSE pc' = "open_build" /\ UNCHANGED <<ret, phase>>
    /\ UNCHANGED <<log, handle, openOthers>>

\* vexdevice.rs:280-288, the handle built around the decoded metadata
OpenBuild ==
    /\ pc = "open_build"
    /\ handle' = "live"
    /\ ret' = "Ok"
    /\ pc' = "open_done"
    /\ UNCHANGED <<phase, log, openMeta, openOthers>>

NextOpen == OpenSend \/ OpenReceive \/ OpenDeserialize \/ OpenBuild

SpecOpen == InitOpen /\ [][NextOpen]_vars

\* the three I/O calls of one exchange, all successful
GoodExchange(cmd) ==
    <<[ev |-> "write", cmd |-> cmd, ok |-> TRUE], [ev |-> "flush", cmd |-> cmd, ok |-> TRUE],
      [ev |-> "read", cmd |-> cmd, ok |-> TRUE]>>

\* C35: open returns a handle only after the OpenFile exchange and, in Upload
\* mode, a SetLinkedFilename exchange after it; in Download mode OpenFile is
\* the only exchange; every I/O call it made succeeded; and the handle's
\* transfer metadata is the triple decoded from the OpenFile response.  A
\* SetLinkedFilename request is never written before the OpenFile response
\* was read and decoded.
C35_OpenExchanges ==
    /\ handle = "live" <=> (pc = "open_done" /\ ret = "Ok")
    /\ handle = "live" =>
          /\ log = IF fileMode = "Upload"
                   THEN GoodExchange("OpenFile") \o GoodExchange("SetLinkedFilename")
                   ELSE GoodExchange("OpenFile")
          /\ Len(openData) >= 10
          /\ openMeta = OpenTriple(openData)
    /\ \A i \in 1..Len(log) :
          log[i].cmd = "SetLinkedFilename" =>
              /\ fileMode = "Upload"
              /\ i > 3
              /\ SubSeq(log, 1, 3) = GoodExchange("OpenFile")
              /\ openMeta.status = "Ok"

\* a handle returned for an upload after both exchanges
C35_Witness ==
    /\ handle = "live"
    /\ fileMode = "Upload"
    /\ Len(log) = 6
    /\ openMeta.max_packet_size = 127

\* the mask chk with its LENGTH bit flipped
FlipLength(chk) ==
    IF "LENGTH" \in chk THEN chk \ {"LENGTH"} ELSE chk \cup {"LENGTH"}

C37_FromU8Inverse ==
    pc = "ack_done" =>
        \A v \in DOMAIN VexACKType : ackByte = VexACKType[v] => ackResult = v

(***************************************************************************)
(* Device::read_serial (v5/mod.rs and devices/genericv5/device.rs): the    *)
(* user program's serial output fetched with 0x27 requests and buffered in *)
(* read_buffer.  The device numbers the serial bytes it sends 1, 2, 3, ... *)
(***************************************************************************)
\* read_serial calls in a run, the largest caller buffer, and the most
\* serial bytes in one response
MaxCalls == 3
MaxBuf == 3
MaxChunk == 3

\* mod.rs:75-78, the id of the serial read command
SerialReadId == 39

\* what send_request returns for the 0x27 request when the device has sent
\* c serial bytes so far: an error; a 0x27 response whose data is one leading
\* byte and the next k serial bytes; one with empty data; one under another id
SerialResponses(c) ==
    {[status |-> "Err", id |-> 0, data |-> <<>>],
     [status |-> "Ok", id |-> SerialReadId, data |-> <<>>],
     [status |-> "Ok", id |-> 1, data |-> <<170, 99>>]}
    \cup {[status |-> "Ok", id |-> SerialReadId,
           data |-> <<170>> \o [j \in 1..k |-> c + j]] : k \in 0..MaxChunk}

\* the response data put in read_buffer whole
SerialDataWhole(d) == d

\* mod.rs:84, &res.1[1..]
SerialData(d) == Tail(d)

InitSerial ==
    /\ read_buffer = <<>>
    /\ delivered = <<>>
    /\ received = <<>>
    /\ devCount = 0
    /\ lastCall = NoCall
    /\ callsLeft = MaxCalls
    /\ pc = "serial"
    /\ stream = <<>>
    /\ mode = "extended"
    /\ checks = VexExtPacketChecks
    /\ wellFormed = FALSE
    /\ silence = "eof"
    /\ DecoderInit
    /\ NoEncoder
    /\ NoLength
    /\ NoAck
    /\ NoCommand
    /\ NoSession
    /\ NoPad
    /\ NoTransfer
    /\ NoOpen
    /\ NoKV
    /\ NoReject
    /\ NoPair
    /\ NoRead
    /\ NoKVRead
    /\ NoVersion
    /\ NoChannel

\* mod.rs:88-105 on the read buffer rb and a caller buffer of n bytes
SerialDeliver(rb, n, req) ==
    LET data_len == IF n < Len(rb) THEN n ELSE Len(rb)
        data == Resize(SubSeq(rb, 1, data_len), n)
    IN /\ read_buffer' = SubSeq(rb, data_len + 1, Len(rb))
       /\ delivered' = delivered \o SubSeq(data, 1, data_len)
       /\ lastCall' = [status |-> "Ok", buf |-> data, had |-> Len(read_buffer),
                       requested |-> req, data_len |-> data_len]
       /\ pc' = "serial"

\* read_serial returning Err before it touches read_buffer or buf
SerialFail(n) ==
    /\ lastCall' = [status |-> "Err", buf |-> [j \in 1..n |-> 0],
                    had |-> Len(read_buffer), requested |-> TRUE, data_len |-> 0]
    /\ pc' = "serial"
    /\ UNCHANGED <<read_buffer, delivered, received, devCount>>

\* one call of Device::read_serial(buf) with buf.len() = n, mod.rs:63-106
ReadSerial ==
    /\ pc = "serial"
    /\ callsLeft > 0
    /\ callsLeft' = callsLeft - 1
    /\ \E n \in 0..MaxBuf :
          IF Len(read_buffer) < n
          THEN \E rsp \in SerialResponses(devCount) :
                  IF rsp.status # "Ok" \/ rsp.id # SerialReadId
                  THEN SerialFail(n)
                  ELSE IF rsp.data = <<>>
                  THEN /\ lastCall' = [status |-> "Panic", buf |-> [j \in 1..n |-> 0],
                                       had |-> Len(read_buffer), requested |-> TRUE,
                                       data_len |-> 0]
                       /\ pc' = "serial_panicked"
                       /\ UNCHANGED <<read_buffer, delivered, received, devCount>>
                  ELSE /\ received' = received \o Tail(rsp.data)
                       /\ devCount' = devCount + Len(rsp.data) - 1
                       /\ SerialDeliver(read_buffer \o SerialData(rsp.data), n, TRUE)
          ELSE /\ SerialDeliver(read_buffer, n, FALSE)
               /\ UNCHANGED <<received, devCount>>
    /\ UNCHANGED <<pos, expired, header_index, command, lenByte, length, payload,
                   packet, result>>
    /\ UNCHANGED <<inputVars, encoderVars, lengthVars, ackVars, commandVars,
                   sessionVars, padVars, transferVars, openVars, kvVars, rejectVars,
                   pairVars, readVars, kvReadVars, versionVars,
                   channelVars>>

NextSerial == ReadSerial

SpecSerial == InitSerial /\ [][NextSerial]_vars

\* C38: the bytes read_serial has delivered, in call order, followed by the
\* bytes still in read_buffer, are the data of the 0x27 responses received,
\* each less its first byte, in order: nothing lost, repeated or moved.  A
\* call that returned Ok filled the first data_len bytes of buf with the last
\* bytes delivered and the rest with 0, and a request was sent by a call only
\* if read_buffer held fewer bytes than its buf.
C38_SerialIntegrity ==
    /\ delivered \o read_buffer = received
    /\ lastCall.requested => lastCall.had < Len(lastCall.buf)
    /\ lastCall.status = "Ok" =>
          /\ lastCall.data_len <= Len(lastCall.buf)
          /\ lastCall.data_len <= Len(delivered)
          /\ SubSeq(lastCall.buf, 1, lastCall.data_len)
                = SubSeq(delivered, Len(delivered) - lastCall.data_len + 1, Len(delivered))
          /\ \A j \in (lastCall.data_len + 1)..Len(lastCall.buf) : lastCall.buf[j] = 0

\* a call served from read_buffer alone, with bytes left over for the next
C38_Witness ==
    /\ lastCall.status = "Ok"
    /\ ~lastCall.requested
    /\ lastCall.data_len = 1
    /\ Len(delivered) = 2
    /\ read_buffer # <<>>

\* ---------------------------------------------------------------------
\* VexDevice::with_channel (src/src/device/vexdevice.rs:68-95)

SwitchChannelId == 16

\* device/mod.rs:90-97, V5ControllerChannel as u8
V5ControllerChannel == [PIT |-> 0, UPLOAD |-> 1]

\* product byte of the version response, device/mod.rs:50-56
ChannelDevices == [V5Brain |-> 16, V5Controller |-> 17, Other |-> 18]

\* vexdevice.rs:94 always, the result of f whatever the switch back did
WithChannelResultOfF(res, back) == res

\* vexdevice.rs:93-94: `self.switch_channel(None)?; res`
WithChannelResult(res, back) == IF back = "Ok" THEN res ELSE back

ChannelSent(cmd, data, ok) == [op |-> "send", cmd |-> cmd, data |-> data, ok |-> ok]
ChannelReceived(cmd, data, ok) == [op |-> "receive", cmd |-> cmd, data |-> data, ok |-> ok]
ChannelRanF(res) == [op |-> "f", cmd |-> 0, data |-> <<>>, ok |-> res = "Ok"]

\* vexdevice.rs:69-86 with the outcomes of its four I/O calls: s1 and s2
\* whether send_simple and send_extended returned Ok, r1 whether
\* receive_simple did and v the data it gave, r2 whether
\* receive_extended(ALL) returned Ok.  channel is what unwrap_or(PIT) gives.
switch_channel(channel, s1, r1, v, s2, r2) ==
    LET send1 == <<ChannelSent(GetSystemVersionId, <<>>, s1)>>
        asked == send1 \o <<ChannelReceived(GetSystemVersionId, IF r1 THEN v ELSE <<>>, r1)>>
        switch == asked \o <<ChannelSent(SwitchChannelId, <<channel>>, s2)>>
        info == ParseVersion(v)
    IN  IF ~s1 THEN [status |-> "Err", log |-> send1]
        ELSE IF ~r1 THEN [status |-> "Err", log |-> asked]
        ELSE IF info.status # "Ok" THEN [status |-> info.status, log |-> asked]
        ELSE IF info.product # "V5Controller" THEN [status |-> "Ok", log |-> asked]
        ELSE IF ~s2 THEN [status |-> "Err", log |-> switch]
        ELSE [status |-> IF r2 THEN "Ok" ELSE "Err",
              log |-> switch \o <<ChannelReceived(SwitchChannelId, <<>>, r2)>>]

\* the version responses of the device: its product byte at 5, any flags,
\* and the lengths around the 7 bytes the parse indexes
ChannelVersions ==
    {VersionPayload(n, ChannelDevices[chDevice], f) : n \in {6, 7}, f \in {0, 1}}

InitChannel ==
    /\ chDevice \in DOMAIN ChannelDevices
    /\ chChannel \in {V5ControllerChannel.PIT, V5ControllerChannel.UPLOAD}
    /\ chLog = <<>>
    /\ chF = "None"
    /\ chRet = "None"
    /\ pc = "with_channel"
    /\ stream = <<>>
    /\ mode = "extended"
    /\ checks = VexExtPacketChecks
    /\ wellFormed = FALSE
    /\ silence = "eof"
    /\ DecoderInit
    /\ NoEncoder
    /\ NoLength
    /\ NoAck
    /\ NoCommand
    /\ NoSession
    /\ NoPad
    /\ NoTransfer
    /\ NoOpen
    /\ NoKV
    /\ NoReject
    /\ NoPair
    /\ NoRead
    /\ NoKVRead
    /\ NoVersion
    /\ NoSerial

channelOthers == <<pos, expired, header_index, command, lenByte, length, payload,
                   packet, result, inputVars, encoderVars, lengthVars, ackVars,
                   commandVars, sessionVars, padVars, transferVars, openVars, kvVars,
                   rejectVars, pairVars, readVars, kvReadVars, versionVars, serialVars>>

\* vexdevice.rs:91, self.switch_channel(Some(channel))?
SwitchTo ==
    /\ pc = "with_channel"
    /\ \E s1 \in BOOLEAN, r1 \in BOOLEAN, v \in ChannelVersions,
          s2 \in BOOLEAN, r2 \in BOOLEAN :
          LET sw == switch_channel(chChannel, s1, r1, v, s2, r2)
          IN  /\ chLog' = chLog \o sw.log
              /\ IF sw.status = "Ok"
                 THEN pc' = "with_channel_f" /\ UNCHANGED chRet
                 ELSE /\ pc' = IF sw.status = "Panic" THEN "with_channel_panicked"
                                                       ELSE "with_channel_done"
                      /\ chRet' = sw.status
    /\ UNCHANGED <<chDevice, chChannel, chF>>
    /\ UNCHANGED channelOthers

\* vexdevice.rs:92, let res = f()
RunF ==
    /\ pc = "with_channel_f"
    /\ \E res \in {"Ok", "ErrF"} :
          /\ chF' = res
          /\ chLog' = Append(chLog, ChannelRanF(res))
    /\ pc' = "with_channel_back"
    /\ UNCHANGED <<chDevice, chChannel, chRet>>
    /\ UNCHANGED channelOthers

\* vexdevice.rs:93-94, self.switch_channel(None)?; res
SwitchBack ==
    /\ pc = "with_channel_back"
    /\ \E s1 \in BOOLEAN, r1 \in BOOLEAN, v \in ChannelVersions,
          s2 \in BOOLEAN, r2 \in BOOLEAN :
          LET sw == switch_channel(V5ControllerChannel.PIT, s1, r1, v, s2, r2)
          IN  /\ chLog' = chLog \o sw.log
              /\ chRet' = WithChannelResult(chF, sw.status)
              /\ pc' = IF sw.status = "Panic" THEN "with_channel_panicked"
                                               ELSE "with_channel_done"
    /\ UNCHANGED <<chDevice, chChannel, chF>>
    /\ UNCHANGED channelOthers

NextChannel == SwitchTo \/ RunF \/ SwitchBack

SpecChannel == InitChannel /\ [][NextChannel]_vars

\* the positions of the log where f was called
RanF == {k \in 1..Len(chLog) : chLog[k].op = "f"}

\* the SwitchChannel requests of the log
SwitchRequests ==
    {k \in 1..Len(chLog) : chLog[k].op = "send" /\ chLog[k].cmd = SwitchChannelId}

\* the first switch_channel returned Ok: its version exchange went through,
\* and on a controller its SwitchChannel exchange for chChannel did too
SwitchedTo ==
    /\ Len(chLog) >= 2
    /\ chLog[1] = ChannelSent(GetSystemVersionId, <<>>, TRUE)
    /\ chLog[2].op = "receive" /\ chLog[2].ok
    /\ ParseVersion(chLog[2].data).status = "Ok"
    /\ chDevice = "V5Controller" =>
          /\ Len(chLog) >= 4
          /\ chLog[3] = ChannelSent(SwitchChannelId, <<chChannel>>, TRUE)
          /\ chLog[4] = ChannelReceived(SwitchChannelId, <<>>, TRUE)

\* C39: f is called at most once and only after the first switch_channel
\* returned Ok; once with_channel has returned after calling f, the next
\* thing in the log after f is the version request of switch_channel(None),
\* whether f gave Ok or Err, any SwitchChannel request after f is for PIT, and
\* with the switch back Ok the value returned is the one f gave; a device that
\* is not a controller is never sent a SwitchChannel request.
C39_WithChannel ==
    /\ Cardinality(RanF) <= 1
    /\ RanF # {} => SwitchedTo
    /\ chF # "None" <=> RanF # {}
    /\ \A k \in RanF :
          /\ chLog[k].ok <=> chF = "Ok"
          /\ pc \in {"with_channel_done", "with_channel_panicked"} =>
                /\ Len(chLog) > k
                /\ chLog[k + 1].op = "send"
                /\ chLog[k + 1].cmd = GetSystemVersionId
                /\ \A j \in SwitchRequests : j > k =>
                      chLog[j].data = <<V5ControllerChannel.PIT>>
                /\ (chDevice = "V5Controller" /\ chRet \in {"Ok", "ErrF"}) =>
                      /\ Len(chLog) = k + 4
                      /\ chLog[k + 3] = ChannelSent(SwitchChannelId,
                                                    <<V5ControllerChannel.PIT>>, TRUE)
                      /\ chLog[k + 4] = ChannelReceived(SwitchChannelId, <<>>, TRUE)
          /\ (pc = "with_channel_done" /\ chRet \in {"Ok", "ErrF"}) => chRet = chF
    /\ (pc = "with_channel_done" /\ RanF = {}) => chRet = "Err"
    /\ chDevice # "V5Controller" => SwitchRequests = {}

\* a controller switched to UPLOAD, f failed, the switch back to PIT went
\* through and with_channel returned f's error
C39_Witness ==
    /\ pc = "with_channel_done"
    /\ chDevice = "V5Controller"
    /\ chChannel = V5ControllerChannel.UPLOAD
    /\ chF = "ErrF"
    /\ chRet = "ErrF"
    /\ Len(chLog) = 9

\* ---------------------------------------------------------------------
\* termination of V5FileHandle::write_all (src/src/device/handle.rs:119-167)

\* C40: for every negotiated max_packet_size, 0 and 1 included, and every
\* data length, write_all gets into its chunk loop with a step that is not
\* 0, the loop index is the step times the exchanges made, the exchanges
\* stay within ceil(size / step), and write_all returns Ok after exactly that
\* many.
C40_WriteAllTerminates ==
    /\ tpc # "start" => MaxSize > 0
    /\ (tpc = "write_loop" /\ MaxSize > 0) =>
            /\ loop_i = Len(WriteRequests) * MaxSize
            /\ Len(WriteRequests) <= CeilDiv(Size, MaxSize)
    /\ (tpc = "written" /\ MaxSize > 0) =>
            /\ tret.status = "Ok"
            /\ Len(WriteRequests) = CeilDiv(Size, MaxSize)

====
